---- MODULE Spec2Model ----
(***************************************************************************)
(* Idea Generator for Designers: the generation orchestrator               *)
(* (server/utils/openai-helpers.js, here src/unnamed/part_004), its reply  *)
(* parsers and the HTTP handler that calls it (src/server/index.js).       *)
(*                                                                         *)
(* Texts are TLA+ strings, handled character by character the way the      *)
(* JavaScript string methods handle them.  The two non-ASCII characters of *)
(* the source, U+2022 (bullet) and U+2014 (em-dash), cannot be written in  *)
(* a TLA+ string; Bullet and EmDash name the one-character stand-ins.      *)
(***************************************************************************)
EXTENDS Integers, Sequences, FiniteSets, TLC

----------------------------------------------------------------------------
(* Bounds of the model *)

\* greatest number of lines of a reply text
MaxLines == 3

\* greatest number of visual prompts handed to a direct call
MaxPrompts == 4

\* greatest number of requests the handler takes in one behaviour
MaxRequests == 2

----------------------------------------------------------------------------
(* JavaScript strings *)

Bullet == "*"
EmDash == "~"

\* the lower-case letter of each upper-case letter
Lower ==
  [A |-> "a", B |-> "b", C |-> "c", D |-> "d", E |-> "e", F |-> "f", G |-> "g", H |-> "h",
   I |-> "i", J |-> "j", K |-> "k", L |-> "l", M |-> "m", N |-> "n", O |-> "o", P |-> "p",
   Q |-> "q", R |-> "r", S |-> "s", T |-> "t", U |-> "u", V |-> "v", W |-> "w", X |-> "x",
   Y |-> "y", Z |-> "z"]
Digits == {"0", "1", "2", "3", "4", "5", "6", "7", "8", "9"}

Min(a, b) == IF a < b THEN a ELSE b

\* the element of a one-element set.  The({e(x) : x \in {v}}) is e(v) with v
\* evaluated once and x standing for its value
The(S) == CHOOSE v \in S : TRUE

Char(s, i) == SubSeq(s, i, i)

\* the array whose elements are the values of f, each evaluated once, in index order
Array(f) == f \o <<>>

\* s.startsWith(p)
StartsWith(str, pre) ==
  \E s \in {str} : \E p \in {pre} : Len(s) >= Len(p) /\ SubSeq(s, 1, Len(p)) = p

\* s.includes(p), p non-empty
Includes(str, pat) ==
  \E s \in {str} : \E p \in {pat} :
    \E i \in 1..(Len(s) - Len(p) + 1) : SubSeq(s, i, i + Len(p) - 1) = p

\* 1-based position of the first occurrence of p in s, 0 when there is none
IndexOf(str, pat) ==
  The({IF Includes(s, p)
       THEN CHOOSE i \in 1..(Len(s) - Len(p) + 1) :
              /\ SubSeq(s, i, i + Len(p) - 1) = p
              /\ \A j \in 1..(i - 1) : SubSeq(s, j, j + Len(p) - 1) # p
       ELSE 0 : s \in {str}, p \in {pat}})

\* s.substring(n), n counted from 0
Substring(str, n) == The({SubSeq(s, n + 1, Len(s)) : s \in {str}})

IsSpace(c) == c \in {" ", "\t", "\r", "\n"}

\* s.trim()
Trim(str) ==
  The({IF \A i \in 1..Len(s) : IsSpace(Char(s, i))
       THEN ""
       ELSE SubSeq(s,
                   CHOOSE i \in 1..Len(s) :
                     ~IsSpace(Char(s, i)) /\ \A j \in 1..(i - 1) : IsSpace(Char(s, j)),
                   CHOOSE i \in 1..Len(s) :
                     ~IsSpace(Char(s, i)) /\ \A j \in (i + 1)..Len(s) : IsSpace(Char(s, j)))
       : s \in {str}})

LowerChar(c) == IF c \in DOMAIN Lower THEN Lower[c] ELSE c

RECURSIVE ToLowerCase(_)
\* s.toLowerCase(): every character lowered, the two halves of the text in turn
ToLowerCase(str) ==
  The({IF Len(s) <= 1 THEN LowerChar(s)
       ELSE ToLowerCase(SubSeq(s, 1, Len(s) \div 2))
              \o ToLowerCase(SubSeq(s, Len(s) \div 2 + 1, Len(s)))
       : s \in {str}})

RECURSIVE Split(_, _)
\* s.split(sep), sep non-empty
Split(str, sep) ==
  The({IF i = 0
       THEN <<s>>
       ELSE <<SubSeq(s, 1, i - 1)>> \o Split(SubSeq(s, i + Len(sep), Len(s)), sep)
       : <<s, i>> \in {<<t, IndexOf(t, sep)>> : t \in {str}}})

\* s.split(sep, n)
SplitLimit(str, sep, n) ==
  The({SubSeq(all, 1, Min(n, Len(all))) : all \in {Split(str, sep)}})

\* /\d/.test(s)
HasDigit(str) == \E s \in {str} : \E i \in 1..Len(s) : Char(s, i) \in Digits

RECURSIVE Join(_, _)
\* lines.join(sep)
Join(lines, sep) ==
  IF Len(lines) = 0 THEN ""
  ELSE IF Len(lines) = 1 THEN lines[1]
  ELSE lines[1] \o sep \o Join(Tail(lines), sep)

\* seq.slice(a, b), indices counted from 0
Slice(seq, a, b) == The({SubSeq(s, a + 1, Min(b, Len(s))) : s \in {seq}})

----------------------------------------------------------------------------
(* JavaScript objects used as dictionaries: const themes = {}               *)
(* A themes object is the sequence of its own properties in the order      *)
(* Object.keys / JSON.stringify enumerate them: the keys that are array    *)
(* indices first, in ascending numeric order, then the other keys in       *)
(* insertion order.                                                        *)

\* property names every object inherits from Object.prototype
ProtoKeys == {"constructor", "toString", "toLocaleString", "valueOf", "hasOwnProperty",
              "isPrototypeOf", "propertyIsEnumerable", "__proto__", "__defineGetter__",
              "__defineSetter__", "__lookupGetter__", "__lookupSetter__"}

MaxIndexText == "4294967294"

DigitVal(c) == CHOOSE n \in 0..9 : Char("0123456789", n + 1) = c

RECURSIVE NumLess(_, _)
\* a < b for two digit strings without leading zeros
NumLess(x, y) ==
  \E a \in {x} : \E b \in {y} :
    IF Len(a) # Len(b) THEN Len(a) < Len(b)
    ELSE IF a = "" THEN FALSE
    ELSE IF Char(a, 1) # Char(b, 1) THEN DigitVal(Char(a, 1)) < DigitVal(Char(b, 1))
    ELSE NumLess(Substring(a, 1), Substring(b, 1))

\* the key is a canonical array index (an integer from 0 to 2^32 - 2)
IsArrayIndex(key) ==
  \E k \in {key} :
    /\ k # ""
    /\ \A i \in 1..Len(k) : Char(k, i) \in Digits
    /\ (Len(k) = 1 \/ Char(k, 1) # "0")
    /\ (k = MaxIndexText \/ NumLess(k, MaxIndexText))

HasOwn(themes, key) ==
  \E t \in {themes} : \E k \in {key} : \E i \in 1..Len(t) : t[i].name = k

OwnIndex(themes, key) ==
  The({CHOOSE i \in 1..Len(t) : t[i].name = k : t \in {themes}, k \in {key}})

\* themes[k] is truthy: an own array, or a member inherited from Object.prototype
Truthy(themes, key) == \E k \in {key} : HasOwn(themes, k) \/ k \in ProtoKeys

\* position the new key k takes in the enumeration order
InsertPos(themes, key) ==
  The({IF IsArrayIndex(k)
       THEN 1 + Cardinality({i \in 1..Len(t) :
                               IsArrayIndex(t[i].name) /\ NumLess(t[i].name, k)})
       ELSE Len(t) + 1 : t \in {themes}, k \in {key}})

\* themes[k] = items, for a key that is not an own property yet
SetNew(themes, key, items) ==
  The({SubSeq(t, 1, p - 1) \o <<[name |-> k, items |-> items]>> \o SubSeq(t, p, Len(t))
       : <<t, k, p>> \in {<<u, j, InsertPos(u, j)>> : u \in {themes}, j \in {key}}})

\* themes[k].push(item) on an own property
Push(themes, key, item) ==
  The({[t EXCEPT ![OwnIndex(t, key)].items = Append(@, item)] : t \in {themes}})

\* Object.keys(themes)
Keys(themes) == The({Array([i \in 1..Len(t) |-> t[i].name]) : t \in {themes}})

\* a variable holding null or a string: <<>> is null
Null == <<>>
Some(s) == <<s>>
\* if (currentTheme): neither null nor the empty string
IsSet(cur) == cur # Null /\ cur[1] # ""

----------------------------------------------------------------------------
(* parseHMWThemes *)

HMWPrefixes == <<"1.", "2.", "3.", "4.", "5.", Bullet, "-", "HMW", "How might we">>

\* cleaned = cleaned.substring(prefix.length).trim(), and the colon removal
CutPrefix(cleaned, prefix) ==
  The({IF StartsWith(rest, ":") THEN Trim(Substring(rest, 1)) ELSE rest
       : rest \in {Trim(Substring(cleaned, Len(prefix)))}})

\* the loop over the prefixes, case-insensitive: it stops at the first prefix that matches
StripPrefixCI(text, prefixes) ==
  The({IF hits = {} THEN cleaned
       ELSE CutPrefix(cleaned, prefixes[CHOOSE i \in hits : \A j \in hits : i <= j])
       : <<cleaned, hits>> \in
           {<<c, {i \in 1..Len(prefixes) : StartsWith(low, ToLowerCase(prefixes[i]))}>>
              : <<c, low>> \in {<<t, ToLowerCase(t)>> : t \in {text}}}})

\* a prefixing that keeps the letter case of the remainder
NormalizeHMWKeepsCase(text) ==
  The({IF StartsWith(low, "how might we") THEN cleaned ELSE "How might we " \o cleaned
       : <<cleaned, low>> \in {<<c, ToLowerCase(c)>> : c \in {text}}})

\* if (!cleaned.toLowerCase().startsWith('how might we')) cleaned = `How might we ${...}`
NormalizeHMW(text) ==
  The({IF StartsWith(low, "how might we") THEN cleaned ELSE "How might we " \o low
       : <<cleaned, low>> \in {<<c, ToLowerCase(c)>> : c \in {text}}})

\* currentTheme = name; if (!themes[currentTheme]) themes[currentTheme] = []
\* opened records the keys in the order the assignments create them
OpenTheme(state, theme) ==
  The({[st EXCEPT !.currentTheme = Some(name),
                  !.themes = IF Truthy(@, name) THEN @ ELSE SetNew(@, name, <<>>),
                  !.opened = IF Truthy(st.themes, name) THEN @ ELSE Append(@, name)]
       : st \in {state}, name \in {theme}})

\* themes[currentTheme].push(item); a TypeError when themes[currentTheme] is inherited
PushCurrent(state, item) ==
  The({IF HasOwn(st.themes, st.currentTheme[1])
       THEN [st EXCEPT !.themes = Push(@, st.currentTheme[1], item)]
       ELSE [st EXCEPT !.threw = TRUE] : st \in {state}})

\* the statement branch of the loop body
HMWStatement(st, trimmed) ==
  The({IF cleaned # "" /\ (StartsWith(ToLowerCase(cleaned), "how") \/ Len(cleaned) > 10)
       THEN PushCurrent(st, NormalizeHMW(cleaned))
       ELSE st : cleaned \in {StripPrefixCI(trimmed, HMWPrefixes)}})

\* the undeclared-header branch of the loop body
PotentialTheme(st, trimmed) ==
  The({IF Len(potentialTheme) < 50 THEN OpenTheme(st, potentialTheme) ELSE st
       : potentialTheme \in {Trim(Split(trimmed, ":")[1])}})

HMWLine(state, line) ==
  The({IF st.threw \/ trimmed = "" THEN st
       ELSE IF StartsWith(ToLowerCase(trimmed), "theme") /\ Includes(trimmed, ":")
       THEN OpenTheme(st, Trim(SplitLimit(trimmed, ":", 2)[2]))
       ELSE IF Includes(trimmed, ":") /\ ~HasDigit(Split(trimmed, ":")[1])
       THEN PotentialTheme(st, trimmed)
       ELSE IF IsSet(st.currentTheme)
       THEN HMWStatement(st, trimmed)
       ELSE st
       : <<st, trimmed>> \in {<<u, Trim(line)>> : u \in {state}}})

RECURSIVE HMWLoop(_, _, _)
HMWLoop(lines, i, st) ==
  IF i > Len(lines) THEN st
  ELSE The({HMWLoop(lines, i + 1, next) : next \in {HMWLine(st, lines[i])}})

\* the lines the tier-1 re-scan keeps
HMWFallbackKeep(line) ==
  \E trimmed \in {Trim(line)} :
     /\ trimmed # ""
     /\ \/ (Len(trimmed) >= 2 /\ Char(trimmed, 1) \in {"1", "2", "3", "4", "5"}
                              /\ Char(trimmed, 2) = ".")
        \/ StartsWith(trimmed, Bullet)
        \/ StartsWith(trimmed, "-")
        \/ StartsWith(ToLowerCase(trimmed), "hmw")
        \/ StartsWith(ToLowerCase(trimmed), "how")

HMWFallbackMap(stmt) ==
  The({IF cleaned # "" /\ ~StartsWith(ToLowerCase(cleaned), "how might we")
       THEN "How might we " \o ToLowerCase(cleaned)
       ELSE cleaned : cleaned \in {StripPrefixCI(Trim(stmt), HMWPrefixes)}})

NonEmpty(s) == s # ""

HMWFallbackStatements(content) ==
  The({SelectSeq([i \in 1..Len(kept) |-> HMWFallbackMap(kept[i])], NonEmpty)
       : kept \in {SelectSeq(Split(content, "\n"), HMWFallbackKeep)}})

\* the three fixed theme names over the statements, in groups of four
HMWGroups(statements) ==
  The({The({IF Len(statements) > 8
            THEN SetNew(t2, "Innovation", Slice(statements, 8, Len(statements)))
            ELSE t2
            : t2 \in {IF Len(statements) > 4
                      THEN SetNew(t1, "Exploration", Slice(statements, 4, 8))
                      ELSE t1}})
       : t1 \in {IF Len(statements) > 0
                 THEN SetNew(<<>>, "Reframing", Slice(statements, 0, 4))
                 ELSE <<>>}})

HMWFallback(content) ==
  The({HMWGroups(statements) : statements \in {HMWFallbackStatements(content)}})

HMWPlaceholder ==
  <<[name |-> "Design Exploration",
     items |-> <<"How might we approach this challenge from a user-centered perspective?",
                 "How might we leverage technology to solve this problem?",
                 "How might we create sustainable solutions for this challenge?">>]>>

HMWStart == [themes |-> <<>>, currentTheme |-> Null, threw |-> FALSE, opened |-> <<>>]

\* the fallback and placeholder tiers after the loop
HMWFinish(st, content) ==
  IF st.threw THEN [threw |-> TRUE, themes |-> <<>>]
  ELSE The({[threw |-> FALSE, themes |-> IF Len(t1) = 0 THEN HMWPlaceholder ELSE t1]
            : t1 \in {IF Len(st.themes) = 0 THEN HMWFallback(content) ELSE st.themes}})

\* the value parseHMWThemes returns, or threw = TRUE when it raises a TypeError
parseHMWThemes(content) ==
  The({HMWFinish(st, content)
       : st \in {HMWLoop(lines, 1, HMWStart) : lines \in {Split(content, "\n")}}})

----------------------------------------------------------------------------
(* parseFeatureThemes *)

ListPrefixes == <<"1.", "2.", "3.", "4.", "5.", Bullet, "-">>

\* /\d/.test(trimmed[0]) || trimmed.startsWith(bullet) || trimmed.startsWith('-')
IsListItem(text) ==
  \E trimmed \in {text} :
    Char(trimmed, 1) \in Digits \/ StartsWith(trimmed, Bullet) \/ StartsWith(trimmed, "-")

\* some prefix of the list is a prefix of the text
HasPrefix(text, prefixes) ==
  \E t \in {text} : \E i \in 1..Len(prefixes) : StartsWith(t, prefixes[i])

\* the first prefix of the list, in list order, the text starts with
FirstPrefix(text, prefixes) ==
  The({prefixes[CHOOSE i \in 1..Len(prefixes) :
                  /\ StartsWith(t, prefixes[i])
                  /\ \A j \in 1..(i - 1) : ~StartsWith(t, prefixes[j])] : t \in {text}})

\* the loop over the prefixes, case-sensitive: the text without its marker
StripPrefix(text, prefixes) ==
  The({IF HasPrefix(t, prefixes)
       THEN Trim(Substring(t, Len(FirstPrefix(t, prefixes))))
       ELSE t : t \in {text}})

\* split(sep, 2).map((s) => s.trim())
FeatureParts(featureText, sep) ==
  The({[feature |-> Trim(parts[1]), rationale |-> Trim(parts[2])]
       : parts \in {SplitLimit(featureText, sep, 2)}})

\* the feature / rationale pair of a list item's text
SplitFeature(text) ==
  The({IF Includes(featureText, EmDash) THEN FeatureParts(featureText, EmDash)
       ELSE IF Includes(featureText, " - ") THEN FeatureParts(featureText, " - ")
       ELSE [feature |-> featureText, rationale |-> ""] : featureText \in {text}})

FeatureLine(state, line) ==
  The({IF st.threw \/ trimmed = "" THEN st
       ELSE IF StartsWith(ToLowerCase(trimmed), "theme") /\ Includes(trimmed, ":")
       THEN OpenTheme(st, Trim(SplitLimit(trimmed, ":", 2)[2]))
       ELSE IF Includes(trimmed, ":") /\ ~HasDigit(Slice(Split(trimmed, ":")[1], 0, 10))
       THEN PotentialTheme(st, trimmed)
       ELSE IF IsSet(st.currentTheme) /\ IsListItem(trimmed)
       THEN IF HasPrefix(trimmed, ListPrefixes)
            THEN PushCurrent(st, SplitFeature(
                       Trim(Substring(trimmed, Len(FirstPrefix(trimmed, ListPrefixes))))))
            ELSE st
       ELSE st
       : <<st, trimmed>> \in {<<u, Trim(line)>> : u \in {state}}})

RECURSIVE FeatureLoop(_, _, _)
FeatureLoop(lines, i, st) ==
  IF i > Len(lines) THEN st
  ELSE The({FeatureLoop(lines, i + 1, next) : next \in {FeatureLine(st, lines[i])}})

FeaturePlaceholder ==
  <<[name |-> "Feature Ideas",
     items |-> <<[feature |-> "Feature idea 1", rationale |-> "Rationale 1"],
                 [feature |-> "Feature idea 2", rationale |-> "Rationale 2"],
                 [feature |-> "Feature idea 3", rationale |-> "Rationale 3"]>>]>>

FeatureStart == [themes |-> <<>>, currentTheme |-> Null, threw |-> FALSE, opened |-> <<>>]

\* the placeholder tier after the loop
FeatureFinish(st) ==
  IF st.threw THEN [threw |-> TRUE, themes |-> <<>>]
  ELSE [threw |-> FALSE,
        themes |-> IF Len(st.themes) = 0 THEN FeaturePlaceholder ELSE st.themes]

\* the value parseFeatureThemes returns, or threw = TRUE when it raises a TypeError
parseFeatureThemes(content) ==
  The({FeatureFinish(st)
       : st \in {FeatureLoop(lines, 1, FeatureStart) : lines \in {Split(content, "\n")}}})

----------------------------------------------------------------------------
(* parseLayoutThemes *)

\* currentLayout && currentTheme && currentLayout.title
LayoutReady(st) ==
  st.currentLayout # Null /\ IsSet(st.currentTheme) /\ st.currentLayout[1].title # ""

\* if (!themes[currentTheme]) themes[currentTheme] = []; themes[currentTheme].push(currentLayout)
PushLayout(state) ==
  The({IF HasOwn(made, k)
       THEN [st EXCEPT !.themes = Push(made, k, st.currentLayout[1])]
       ELSE [st EXCEPT !.threw = TRUE]
       : <<st, k, made>> \in
           {<<u, u.currentTheme[1],
              IF Truthy(u.themes, u.currentTheme[1]) THEN u.themes
              ELSE SetNew(u.themes, u.currentTheme[1], <<>>)>> : u \in {state}}})

\* the flush of a blank line and of a theme header, which also closes the record
FlushLayout(state) ==
  The({IF LayoutReady(st) THEN [PushLayout(st) EXCEPT !.currentLayout = Null] ELSE st
       : st \in {state}})

NewLayout(title) == Some([title |-> title, description |-> ""])

\* currentLayout.description += (currentLayout.description ? ' ' : '') + trimmed
AppendDescription(st, trimmed) ==
  [st EXCEPT !.currentLayout[1].description =
                 @ \o (IF @ # "" THEN " " ELSE "") \o trimmed]

\* the theme-header branch of the loop body
LayoutHeader(state, trimmed) ==
  The({IF flushed.threw THEN flushed
       ELSE [OpenTheme(flushed, Trim(SplitLimit(trimmed, ":", 2)[2]))
               EXCEPT !.currentLayout = flushed.currentLayout]
       : flushed \in {FlushLayout(state)}})

\* the branch of a line with a colon and no digit in the first ten characters before it
LayoutColon(st, trimmed) ==
  The({IF Len(potentialTheme) < 50 /\ ~IsSet(st.currentTheme)
       THEN OpenTheme(st, potentialTheme)
       ELSE IF IsSet(st.currentTheme) /\ st.currentLayout = Null
       THEN [st EXCEPT !.currentLayout = NewLayout(StripPrefix(trimmed, ListPrefixes))]
       ELSE IF st.currentLayout # Null
       THEN AppendDescription(st, trimmed)
       ELSE st
       : potentialTheme \in {Trim(Split(trimmed, ":")[1])}})

\* the list-item branch of the loop body
LayoutItem(st, trimmed) ==
  The({IF pushed.threw THEN pushed
       ELSE [pushed EXCEPT !.currentLayout = NewLayout(StripPrefix(trimmed, ListPrefixes))]
       : pushed \in {IF LayoutReady(st) THEN PushLayout(st) ELSE st}})

LayoutLine(state, line) ==
  The({IF st.threw THEN st
       ELSE IF trimmed = "" THEN FlushLayout(st)
       ELSE IF StartsWith(ToLowerCase(trimmed), "theme") /\ Includes(trimmed, ":")
       THEN LayoutHeader(st, trimmed)
       ELSE IF Includes(trimmed, ":") /\ ~HasDigit(Slice(Split(trimmed, ":")[1], 0, 10))
       THEN LayoutColon(st, trimmed)
       ELSE IF IsListItem(trimmed)
       THEN LayoutItem(st, trimmed)
       ELSE IF st.currentLayout # Null
       THEN AppendDescription(st, trimmed)
       ELSE IF IsSet(st.currentTheme)
       THEN [st EXCEPT !.currentLayout = NewLayout(trimmed)]
       ELSE st
       : <<st, trimmed>> \in {<<u, Trim(line)>> : u \in {state}}})

RECURSIVE LayoutLoop(_, _, _)
LayoutLoop(lines, i, st) ==
  IF i > Len(lines) THEN st
  ELSE The({LayoutLoop(lines, i + 1, next) : next \in {LayoutLine(st, lines[i])}})

\* section.split('\n').map((l) => l.trim()).filter(Boolean)
SectionLines(section) ==
  The({SelectSeq([i \in 1..Len(raw) |-> Trim(raw[i])], NonEmpty)
       : raw \in {Split(section, "\n")}})

SectionLayout(section) ==
  The({[title |-> StripPrefix(sectionLines[1], ListPrefixes),
        description |-> IF joined # "" THEN joined ELSE "Layout description"]
       : <<sectionLines, joined>> \in
           {<<ls, Join(Tail(ls), " ")>> : ls \in {SectionLines(section)}}})

HasLines(section) == Len(SectionLines(section)) > 0

LayoutFallbackList(content) ==
  The({Array([i \in 1..Len(sections) |-> SectionLayout(sections[i])])
       : sections \in {SelectSeq(Split(content, "\n\n"), HasLines)}})

\* the three fixed theme names over the layouts, in groups of three
LayoutGroups(layoutsList) ==
  The({The({IF Len(layoutsList) > 6
            THEN SetNew(t2, "Content Strategy", Slice(layoutsList, 6, Len(layoutsList)))
            ELSE t2
            : t2 \in {IF Len(layoutsList) > 3
                      THEN SetNew(t1, "Interaction Patterns", Slice(layoutsList, 3, 6))
                      ELSE t1}})
       : t1 \in {IF Len(layoutsList) > 0
                 THEN SetNew(<<>>, "Information Architecture", Slice(layoutsList, 0, 3))
                 ELSE <<>>}})

LayoutFallback(content) ==
  The({LayoutGroups(layoutsList) : layoutsList \in {LayoutFallbackList(content)}})

LayoutPlaceholder ==
  <<[name |-> "Layout Directions",
     items |-> <<[title |-> "Layout 1", description |-> "Description 1"],
                 [title |-> "Layout 2", description |-> "Description 2"],
                 [title |-> "Layout 3", description |-> "Description 3"]>>]>>

LayoutStart ==
  [themes |-> <<>>, currentTheme |-> Null, currentLayout |-> Null, threw |-> FALSE,
   opened |-> <<>>]

\* the end of the function, from the state the loop over the lines leaves
LayoutFinish(looped, content) ==
  The({IF st.threw THEN [threw |-> TRUE, themes |-> <<>>]
       ELSE The({[threw |-> FALSE, themes |-> IF Len(t1) = 0 THEN LayoutPlaceholder ELSE t1]
                 : t1 \in {IF Len(st.themes) = 0 THEN LayoutFallback(content)
                           ELSE st.themes}})
       : st \in {IF ~looped.threw /\ LayoutReady(looped) THEN PushLayout(looped)
                 ELSE looped}})

\* the value parseLayoutThemes returns, or threw = TRUE when it raises a TypeError
parseLayoutThemes(content) ==
  The({LayoutFinish(looped, content) :
         looped \in {LayoutLoop(lines, 1, LayoutStart) : lines \in {Split(content, "\n")}}})

----------------------------------------------------------------------------
(* parseSketchConcepts and the reply parsing of generateSketchPrompts *)

SketchPrefixes == <<"1.", "2.", "3.", Bullet, "-">>

GenericExplanation == "This sketch explores a design approach for addressing the challenge."

\* if (currentExplanation): neither null nor the empty string
PushExplanation(state) ==
  The({IF IsSet(st.currentExplanation)
       THEN [st EXCEPT !.explanations = Append(@, st.currentExplanation[1])]
       ELSE st : st \in {state}})

\* the list-item branch of the loop body
ConceptItem(st, trimmed) ==
  The({[pushed EXCEPT !.currentExplanation =
                         IF IsSet(stripped) THEN stripped ELSE Some(trimmed)]
       : <<pushed, stripped>> \in
           {<<u, IF HasPrefix(trimmed, SketchPrefixes)
                 THEN Some(StripPrefix(trimmed, SketchPrefixes))
                 ELSE u.currentExplanation>> : u \in {PushExplanation(st)}}})

ConceptLine(state, line) ==
  The({IF trimmed = ""
       THEN [PushExplanation(st) EXCEPT
               !.currentExplanation = IF IsSet(st.currentExplanation) THEN Null ELSE @]
       ELSE IF IsListItem(trimmed)
       THEN ConceptItem(st, trimmed)
       ELSE IF IsSet(st.currentExplanation)
       THEN [st EXCEPT !.currentExplanation = Some(@[1] \o " " \o trimmed)]
       ELSE [st EXCEPT !.currentExplanation = Some(trimmed)]
       : <<st, trimmed>> \in {<<u, Trim(line)>> : u \in {state}}})

RECURSIVE ConceptLoop(_, _, _)
ConceptLoop(lines, i, st) ==
  IF i > Len(lines) THEN st
  ELSE The({ConceptLoop(lines, i + 1, next) : next \in {ConceptLine(st, lines[i])}})

\* while (cleaned.length < 3) cleaned.push(generic sentence)
PadTo3(list) ==
  The({cleaned \o [i \in 1..(3 - Min(3, Len(cleaned))) |-> GenericExplanation]
       : cleaned \in {list}})

ConceptStart == [explanations |-> <<>>, currentExplanation |-> Null]

\* explanations.slice(0, 3).map((exp) => exp.trim()).filter(Boolean), padded
ConceptFinish(st) ==
  The({Slice(PadTo3(SelectSeq([i \in 1..Len(first3) |-> Trim(first3[i])], NonEmpty)), 0, 3)
       : first3 \in {Slice(PushExplanation(st).explanations, 0, 3)}})

parseSketchConcepts(content) ==
  The({ConceptFinish(st)
       : st \in {ConceptLoop(lines, 1, ConceptStart) : lines \in {Split(content, "\n")}}})

PromptLineKeep(line) == \E trimmed \in {Trim(line)} : trimmed # "" /\ IsListItem(trimmed)

PlaceholderPrompts == <<"sketch prompt 1", "sketch prompt 2", "sketch prompt 3">>

\* the marked lines of the reply, without their markers
PromptLines(content) ==
  The({SelectSeq([i \in 1..Len(kept) |-> StripPrefix(Trim(kept[i]), SketchPrefixes)],
                 NonEmpty)
       : kept \in {SelectSeq(Split(content, "\n"), PromptLineKeep)}})

\* a generateSketchPrompts that fills a short list up with placeholder prompts
parseSketchPromptsPadded(content) ==
  The({Slice(prompts \o PlaceholderPrompts, 0, 3) : prompts \in {PromptLines(content)}})

\* the prompts generateSketchPrompts derives from the reply text
parseSketchPrompts(content) ==
  The({IF Len(prompts) >= 3 THEN Slice(prompts, 0, 3) ELSE PlaceholderPrompts
       : prompts \in {PromptLines(content)}})

----------------------------------------------------------------------------
(* parseUserSegments *)

\* part.split('\n').map((l) => l.trim()).filter(Boolean)
TrimmedLines(part) ==
  The({SelectSeq([i \in 1..Len(raw) |-> Trim(raw[i])], NonEmpty)
       : raw \in {Split(part, "\n")}})

IsPersonaLine(l) == StartsWith(ToLowerCase(l), "persona")
IsScenariosLine(l) ==
  \E low \in {ToLowerCase(l)} : ~StartsWith(low, "persona") /\ StartsWith(low, "key scenarios")

\* index of the first 'Key Scenarios' line, 0 when there is none
ScenariosStart(lines) ==
  The({IF found = {} THEN 0 ELSE CHOOSE j \in found : \A k \in found : j <= k
       : found \in {{j \in 1..Len(lines) : IsScenariosLine(lines[j])}}})

\* index of the last 'Persona' line the scan reaches, 0 when there is none
PersonaStart(lines, scenariosStart) ==
  The({IF found = {} THEN 0 ELSE CHOOSE j \in found : \A k \in found : k <= j
       : found \in {{j \in 1..(IF scenariosStart = 0 THEN Len(lines)
                                ELSE scenariosStart - 1) : IsPersonaLine(lines[j])}}})

\* the lines after the persona line, up to the first one that starts with 'key'
PersonaLines(lines, personaStart, scenariosStart) ==
  The({SubSeq(lines, personaStart + 1,
              IF stops = {} THEN endIdx
              ELSE (CHOOSE j \in stops : \A k \in stops : j <= k) - 1)
       : <<endIdx, stops>> \in
           {<<e, {j \in (personaStart + 1)..e : StartsWith(ToLowerCase(lines[j]), "key")}>>
              : e \in {IF scenariosStart # 0 THEN scenariosStart - 1 ELSE Len(lines)}}})

\* { name, description } of the joined persona lines
PersonaOf(text) ==
  The({[name |-> IF Includes(personaText, ":")
                 THEN Trim(Split(personaText, ":")[1])
                 ELSE Trim(Split(personaText, ".")[1]),
        description |-> personaText] : personaText \in {text}})

SegmentPersona(lines, scenariosStart) ==
  The({IF personaStart = 0 THEN Null
       ELSE The({IF Len(personaLines) = 0 THEN Null
                 ELSE Some(PersonaOf(Join(personaLines, " ")))
                 : personaLines \in {PersonaLines(lines, personaStart, scenariosStart)}})
       : personaStart \in {PersonaStart(lines, scenariosStart)}})

HasListPrefix(l) == HasPrefix(l, ListPrefixes)

\* the marked lines after the 'Key Scenarios' line, up to the next 'User Segment' line
ScenarioLines(lines, scenariosStart) ==
  The({SelectSeq(SubSeq(lines, scenariosStart + 1,
                        IF stops = {} THEN Len(lines)
                        ELSE (CHOOSE j \in stops : \A k \in stops : j <= k) - 1),
                 HasListPrefix)
       : stops \in {{j \in (scenariosStart + 1)..Len(lines) :
                        StartsWith(ToLowerCase(lines[j]), "user segment")}}})

SegmentScenarios(lines, scenariosStart) ==
  IF scenariosStart = 0 THEN <<>>
  ELSE The({Array([i \in 1..Len(marked) |-> StripPrefix(marked[i], ListPrefixes)])
            : marked \in {ScenarioLines(lines, scenariosStart)}})

\* the segment of one chunk with at least one non-empty line
SegmentOf(lines) ==
  The({[segment_name |-> IF Includes(lines[1], ":")
                         THEN Trim(SplitLimit(lines[1], ":", 2)[2])
                         ELSE lines[1],
        persona |-> SegmentPersona(lines, scenariosStart),
        scenarios |-> SegmentScenarios(lines, scenariosStart)]
       : scenariosStart \in {ScenariosStart(lines)}})

ChunkSegment(part) == The({SegmentOf(lines) : lines \in {TrimmedLines(part)}})

\* the chunk has a line, and its segment has a persona or a scenario
ChunkKept(part) ==
  \E lines \in {TrimmedLines(part)} :
    /\ Len(lines) > 0
    /\ \E seg \in {SegmentOf(lines)} : seg.persona # Null \/ Len(seg.scenarios) > 0

SegmentPlaceholder ==
  <<[segment_name |-> "Primary Users",
     persona |-> Some([name |-> "User", description |-> "Primary user persona"]),
     scenarios |-> <<"Scenario 1", "Scenario 2">>]>>

\* a parser without the fallback segment
parseUserSegmentsNoFallback(content) ==
  The({Array([i \in 1..Len(kept) |-> ChunkSegment(kept[i])])
       : kept \in {SelectSeq(Tail(Split(content, "User Segment")), ChunkKept)}})

parseUserSegments(content) ==
  The({IF Len(kept) = 0 THEN SegmentPlaceholder
       ELSE Array([i \in 1..Len(kept) |-> ChunkSegment(kept[i])])
       : kept \in {SelectSeq(Tail(Split(content, "User Segment")), ChunkKept)}})

----------------------------------------------------------------------------
(* State *)

VARIABLES
  caller,          \* the entry point in use: the HTTP handler, or a direct call of one function
  content,         \* parser entry: the reply text handed to the parser
  grammar,         \* parser entry: the parser the reply text is meant for
  parsed,          \* parser entry: the last parser call and the value it returned
  pc,              \* position of the invocation in flight
  requests,        \* number of requests the handler has taken
  request,         \* body of the request in flight: challenge and sessionId
  textCalls,       \* status of each of the five stage-1 text-generation calls
  textValues,      \* value each fulfilled stage-1 function returned
  sketchPrompts,   \* the visual prompts stage 2 works from
  imageCalls,      \* one entry per image request: pending, or how it settled
  images,          \* the slot list generateImages returned
  conceptCall,     \* status of the concept-explanation text call
  sketchConcepts,  \* the value generateSketchConcepts returned
  result,          \* the value generateAll resolved with
  failure,         \* the error generateAll rejected with
  response,        \* the HTTP response of the request in flight
  sessions,        \* the session store: session id -> stored row
  issued,          \* upstream calls issued by the invocation in flight, in order
  ui,              \* the page: React state of App and the fetches it has started
  clock,           \* the store's clock: the day it is, and the times it advanced
  deleted,         \* the value the last purgeExpiredSessions call returned
  backend          \* the SessionStore object: inMemory, db, the pending import, last call

vars == <<caller, content, grammar, parsed, pc, requests, request, textCalls, textValues,
          sketchPrompts, imageCalls, images, conceptCall, sketchConcepts, result, failure,
          response, sessions, issued, ui, clock, deleted, backend>>

parserVars == <<content, grammar, parsed>>
invocationVars == <<pc, textCalls, textValues, sketchPrompts, imageCalls, images,
                    conceptCall, sketchConcepts, result, failure, issued>>
handlerVars == <<requests, request, response, sessions>>

\* the five functions of the Promise.all array, in array order
TextCallOrder == <<"hmw", "features", "sketch", "layout", "context">>
TextCallNames == {TextCallOrder[i] : i \in 1..Len(TextCallOrder)}

\* messages of the errors the upstream services raise
ErrorMessages == {"429 rate limit exceeded", ""}

\* message of the error the image service raises
ImageErrors == {"content policy violation"}

PushTypeError == "themes[currentTheme].push is not a function"

\* reply texts the text service returns to each stage-1 call and to the concept call
Replies(c) ==
  CASE c = "hmw" -> {"Theme 1: Safety\n1. How might we improve lighting?",
                     "Theme 1: constructor\n1. How might we rebuild the shelter?"}
    [] c = "features" -> {"Theme 1: Comfort\n1. Heated bench - keeps riders warm"}
    [] c = "sketch" -> {"", "1. a lit shelter\n2. a heated bench\n3. a live map"}
    [] c = "layout" -> {"Theme 1: Navigation\n1. Map first\nroutes on top"}
    [] c = "context" ->
         {"User Segment 1: Commuters\nPersona:\nAna: a nurse\nKey Scenarios:\n- Night shift"}
    [] c = "concepts" -> {"", "1. Light for safety\n2. Warmth\n3. Information"}

Challenges == {"", "  ", "Improve the bus stop"}
SessionIds == {Null, Some("s1")}

\* the steps of the persistence block at which the session store can raise an error
StoreFaults == {"none", "getSession", "createSession", "updateSession"}

\* prompts handed to a direct call of generateImages or generateSketchConcepts
PromptText(i) == "sketch " \o Char("ABCDEFGHIJ", i)
PromptLists == {Array([i \in 1..n |-> PromptText(i)]) : n \in 0..MaxPrompts}

\* what the image service answers for a prompt
UrlOf(prompt) == "https://images/" \o prompt
RevisedOf(prompt) == "revised " \o prompt

----------------------------------------------------------------------------
(* The five stage-1 functions: reply text -> returned value, or a thrown error *)

\* a generate<X> that raises on a reply without text
ParseReplyRejectsEmpty(c, text) ==
  CASE c = "hmw" ->
         The({[threw |-> r.threw \/ text = "", value |-> r.themes] : r \in {parseHMWThemes(text)}})
    [] c = "features" ->
         The({[threw |-> r.threw, value |-> r.themes] : r \in {parseFeatureThemes(text)}})
    [] c = "sketch" -> [threw |-> FALSE, value |-> parseSketchPrompts(text)]
    [] c = "layout" ->
         The({[threw |-> r.threw, value |-> r.themes] : r \in {parseLayoutThemes(text)}})
    [] c = "context" -> [threw |-> FALSE, value |-> parseUserSegments(text)]

\* the value generate<X> returns for the reply text, threw = TRUE when its parser raises
ParseReply(c, text) ==
  CASE c = "hmw" -> The({[threw |-> r.threw, value |-> r.themes] : r \in {parseHMWThemes(text)}})
    [] c = "features" ->
         The({[threw |-> r.threw, value |-> r.themes] : r \in {parseFeatureThemes(text)}})
    [] c = "sketch" -> [threw |-> FALSE, value |-> parseSketchPrompts(text)]
    [] c = "layout" ->
         The({[threw |-> r.threw, value |-> r.themes] : r \in {parseLayoutThemes(text)}})
    [] c = "context" -> [threw |-> FALSE, value |-> parseUserSegments(text)]

\* the message of the Error each function's catch block throws
FailureMessage(c, msg) ==
  CASE c = "hmw" ->
         "Failed to generate HMW statements: " \o (IF msg = "" THEN "Unknown error" ELSE msg)
    [] c = "features" -> "Failed to generate feature ideas: " \o msg
    [] c = "sketch" -> "Failed to generate sketch prompts: " \o msg
    [] c = "layout" -> "Failed to generate layout suggestions: " \o msg
    [] c = "context" -> "Failed to generate user context: " \o msg

----------------------------------------------------------------------------
(* generateImages *)

\* prompts.slice(0, 3).map(prompt => client.images.generate(...)): the requests issued
IssueImages(prompts) ==
  The({Array([i \in 1..Len(first) |-> [prompt |-> first[i], status |-> "pending"]])
       : first \in {Slice(prompts, 0, 3)}})

\* the slot results.map builds from one settled request
SlotOf(call) ==
  IF call.status = "rejected"
  THEN [url |-> Null, revised_prompt |-> Null, error |-> Some(call.reason)]
  ELSE IF call.status = "fulfilled" /\ Len(call.data) > 0
  THEN [url |-> Some(call.data[1].url), revised_prompt |-> Some(call.data[1].revised_prompt),
        error |-> Null]
  ELSE [url |-> Null, revised_prompt |-> Null, error |-> Null]

\* const images = results.map(...), results being the settled requests in request order
SlotsOf(calls) == The({Array([i \in 1..Len(cs) |-> SlotOf(cs[i])]) : cs \in {calls}})

\* a Promise.all-like wait that goes on only when every request has fulfilled
AwaitsFulfilment(calls) == \A i \in 1..Len(calls) : calls[i].status = "fulfilled"

\* Promise.allSettled(imagePromises) has settled: no request is pending
AllSettled(calls) == \A i \in 1..Len(calls) : calls[i].status # "pending"

----------------------------------------------------------------------------
(* generateAll: assembly of the result *)

HasUrl(img) == img.url # Null

\* images.map((img) => img.url).filter(Boolean)
ImageUrls(imgs) ==
  The({Array([i \in 1..Len(kept) |-> kept[i].url[1]]) : kept \in {SelectSeq(imgs, HasUrl)}})

\* an assembly that gives up the user context when an image is missing
AssembleLosesContext(values, prompts, imgs, concepts) ==
  [hmw |-> values["hmw"][1],
   feature_ideas |-> values["features"][1],
   sketch_prompts |-> prompts,
   images |-> imgs,
   image_urls |-> ImageUrls(imgs),
   user_context |-> IF \A i \in 1..Len(imgs) : HasUrl(imgs[i])
                    THEN values["context"][1] ELSE <<>>,
   layouts |-> values["layout"][1],
   sketch_concepts |-> concepts]

Assemble(values, prompts, imgs, concepts) ==
  [hmw |-> values["hmw"][1],
   feature_ideas |-> values["features"][1],
   sketch_prompts |-> prompts,
   images |-> imgs,
   image_urls |-> ImageUrls(imgs),
   user_context |-> values["context"][1],
   layouts |-> values["layout"][1],
   sketch_concepts |-> concepts]

----------------------------------------------------------------------------
(* handleGenerate: persistence and response *)

\* JSON.stringify(value): the text stored in a row
Stringify(value) == [json |-> value]

\* sessionStore.createSession(sessionId, challenge, '', '')
createSession(store, id, challengeText) ==
  [k \in (DOMAIN store) \cup {id} |->
     IF k = id
     THEN [session_id |-> id, challenge_text |-> challengeText,
           user_name |-> Null, user_email |-> Null,
           hmw_results |-> Null, sketch_prompts |-> Null,
           image_urls |-> Null, layout_results |-> Null]
     ELSE store[k]]

\* sessionStore.updateSession(sessionId, payload) on a stored session
updateSession(store, id, payload) ==
  [store EXCEPT ![id] = [@ EXCEPT !.hmw_results = Some(Stringify(payload.hmw_results)),
                                  !.sketch_prompts = Some(Stringify(payload.sketch_prompts)),
                                  !.image_urls = Some(Stringify(payload.image_urls)),
                                  !.layout_results = Some(Stringify(payload.layout_results))]]

\* retentionDays = 180
RetentionDays == 180

\* created_at: new Date().toISOString() on the row createSession has just written
Stamp(store, id, now) ==
  [store EXCEPT ![id] = [k \in (DOMAIN @) \cup {"created_at", "updated_at"} |->
                           IF k \in {"created_at", "updated_at"} THEN now ELSE @[k]]]

\* a purge that also deletes the sessions created exactly retentionDays ago
purgeExpiredSessionsInclusive(store, retentionDays, now) ==
  The({[sessions |-> [k \in {id \in DOMAIN store : ~(store[id].created_at <= cutoff)} |->
                        store[k]],
        deleted |-> Cardinality({id \in DOMAIN store : store[id].created_at <= cutoff})]
       : cutoff \in {now - retentionDays}})

\* purgeExpiredSessions(retentionDays): the store after the call and the value returned
purgeExpiredSessions(store, retentionDays, now) ==
  The({[sessions |-> [k \in {id \in DOMAIN store : ~(store[id].created_at < cutoff)} |->
                        store[k]],
        deleted |-> Cardinality({id \in DOMAIN store : store[id].created_at < cutoff})]
       : cutoff \in {now - retentionDays}})

\* a payload that stores the feature themes in place of the layout themes
StorePayloadFeatures(res) ==
  [hmw_results |-> res.hmw, sketch_prompts |-> res.sketch_prompts,
   image_urls |-> res.image_urls, layout_results |-> res.feature_ideas]

\* the payload the handler hands to updateSession
StorePayload(res) ==
  [hmw_results |-> res.hmw, sketch_prompts |-> res.sketch_prompts,
   image_urls |-> res.image_urls, layout_results |-> res.layouts]

\* the store after the handler's persistence block; fault names the call that raises
Persist(store, req, res, fault) ==
  IF ~IsSet(req.sessionId) \/ fault = "getSession" THEN store
  ELSE The({IF id \notin DOMAIN store /\ fault = "createSession" THEN store
            ELSE IF fault = "updateSession" THEN created
            ELSE updateSession(created, id, StorePayload(res))
            : <<id, created>> \in
                {<<k, IF k \in DOMAIN store THEN store
                      ELSE createSession(store, k, req.challenge)>>
                   : k \in {req.sessionId[1]}}})

\* res.json({...}) after a successful generation
OkResponse(res) ==
  Some([status |-> 200,
        body |-> [hmw |-> res.hmw, feature_ideas |-> res.feature_ideas,
                  user_context |-> res.user_context, sketch_prompts |-> res.sketch_prompts,
                  sketch_concepts |-> res.sketch_concepts, image_urls |-> res.image_urls,
                  layouts |-> res.layouts]])

\* res.status(code).json({ error: message })
ErrorResponse(code, message) ==
  Some([status |-> code,
        body |-> [error |-> IF message = "" THEN "Generation failed" ELSE message]])

----------------------------------------------------------------------------
(* The invocation: generateAll, generateImages, generateSketchConcepts *)

ImageLabel(i) == "image" \o Char("123456789", i)
ImageLabels(n) == [i \in 1..n |-> ImageLabel(i)]

NoCalls == [c \in TextCallNames |-> "unissued"]
NoValues == [c \in TextCallNames |-> Null]

NotRejected(call) == call.status # "rejected"

\* a generateImages that leaves the rejected requests out of its list
generateImagesDropsRejected(settled) == SlotsOf(SelectSeq(settled, NotRejected))

\* the value generateImages returns once Promise.allSettled has resolved
generateImages(settled) == SlotsOf(settled)

\* a generateSketchConcepts whose catch block returns the generic sentences
generateSketchConceptsGeneric(prompts, outcome) ==
  IF outcome.status = "fulfilled"
  THEN parseSketchConcepts(outcome.text)
  ELSE PadTo3(<<>>)

\* the value generateSketchConcepts returns for the outcome of its text call
generateSketchConcepts(prompts, outcome) ==
  IF outcome.status = "fulfilled"
  THEN parseSketchConcepts(outcome.text)
  ELSE Slice(prompts, 0, 3)

\* a stage 1 that waits for the visual prompts only
Stage1DoneSketchOnly(calls) == calls["sketch"] = "fulfilled"

\* Promise.all resolves: every one of the five promises is fulfilled
Stage1Done(calls) == \A d \in TextCallNames : calls[d] = "fulfilled"

\* a generateSketchConcepts that sends its text call a second time
CallConceptsRetried ==
  /\ pc' = "concepts"
  /\ conceptCall' = "pending"
  /\ issued' = issued \o <<"concepts", "concepts">>

\* generateSketchConcepts(challenge, sketchPrompts) is called: its text call is issued
CallConcepts ==
  /\ pc' = "concepts"
  /\ conceptCall' = "pending"
  /\ issued' = Append(issued, "concepts")

\* a stage 2 that issues the concept call together with the image requests
CallImagesWithConcepts(prompts) ==
  \E calls \in {IssueImages(prompts)} :
     /\ sketchPrompts' = prompts
     /\ imageCalls' = calls
     /\ images' = IF Len(calls) = 0 THEN Some(generateImages(calls)) ELSE Null
     /\ pc' = IF Len(calls) = 0 THEN "concepts" ELSE "images"
     /\ conceptCall' = "pending"
     /\ issued' = issued \o ImageLabels(Len(calls)) \o <<"concepts">>

\* generateImages(sketchPrompts) is called: it issues its requests and awaits them all;
\* with no request to await it returns at once and generateAll goes on
CallImages(prompts) ==
  \E calls \in {IssueImages(prompts)} :
     /\ sketchPrompts' = prompts
     /\ imageCalls' = calls
     /\ IF Len(calls) = 0
        THEN /\ images' = Some(generateImages(calls))
             /\ pc' = "concepts"
             /\ conceptCall' = "pending"
             /\ issued' = Append(issued, "concepts")
        ELSE /\ images' = Null
             /\ pc' = "images"
             /\ conceptCall' = "unissued"
             /\ issued' = issued \o ImageLabels(Len(calls))

\* a stage 1 that takes no notice of a rejection
Stage1RejectsUnnoticed(c, msg) ==
  /\ textCalls' = [textCalls EXCEPT ![c] = "rejected"]
  /\ UNCHANGED <<pc, failure, response>>
  /\ UNCHANGED <<textValues, sketchPrompts, imageCalls, images, conceptCall,
                 sketchConcepts, result, issued, sessions>>

\* a stage-1 function rejects: Promise.all rejects, generateAll rejects, and the
\* handler's catch block answers 500; a rejection after that is dropped
Stage1Rejects(c, msg) ==
  /\ textCalls' = [textCalls EXCEPT ![c] = "rejected"]
  /\ IF pc = "stage1"
     THEN /\ pc' = "rejected"
          /\ failure' = Some(FailureMessage(c, msg))
          /\ response' = ErrorResponse(500, FailureMessage(c, msg))
     ELSE UNCHANGED <<pc, failure, response>>
  /\ UNCHANGED <<textValues, sketchPrompts, imageCalls, images, conceptCall,
                 sketchConcepts, result, issued, sessions>>

\* the two entry points of POST /api/generate: the Express route and the serverless function
Handlers == {"handleGenerate", "api/generate"}

\* req.method of a request to the serverless function
Methods == {"POST", "GET"}

\* process.env.OPENAI_API_KEY: not set, or set
ApiKeys == {"", "sk-test"}

\* req.body: without a challenge field, or with one
Bodies ==
  {[sessionId |-> id] : id \in SessionIds} \cup
  {[challenge |-> challenge, sessionId |-> id] : challenge \in Challenges, id \in SessionIds}

\* a test that takes a challenge of white space for a challenge
NoChallengeUntrimmed(body) == "challenge" \notin DOMAIN body \/ body.challenge = ""

\* !challenge || !challenge.trim()
NoChallenge(body) == "challenge" \notin DOMAIN body \/ body.challenge = "" \/ Trim(body.challenge) = ""

\* the serverless function takes a request: method, challenge and API key are checked
\* in this order, then generateAll issues its five text calls
ServerlessRequest(method, body, apiKey) ==
  /\ caller = "api/generate"
  /\ pc \in {"idle", "resolved", "rejected"}
  /\ requests < MaxRequests
  /\ requests' = requests + 1
  /\ request' = [challenge |-> IF NoChallenge(body) THEN "" ELSE body.challenge,
                 sessionId |-> body.sessionId,
                 method |-> method, body |-> body, apiKey |-> apiKey]
  /\ textValues' = NoValues
  /\ sketchPrompts' = <<>>
  /\ imageCalls' = <<>>
  /\ images' = Null
  /\ conceptCall' = "unissued"
  /\ sketchConcepts' = Null
  /\ result' = Null
  /\ failure' = Null
  /\ IF method # "POST" \/ NoChallenge(body) \/ apiKey = ""
     THEN /\ pc' = "idle"
          /\ textCalls' = NoCalls
          /\ issued' = <<>>
          /\ response' = IF method # "POST" THEN ErrorResponse(405, "Method not allowed")
                         ELSE IF NoChallenge(body)
                         THEN ErrorResponse(400, "Challenge text is required")
                         ELSE ErrorResponse(500, "API key not configured")
     ELSE /\ pc' = "stage1"
          /\ textCalls' = [c \in TextCallNames |-> "pending"]
          /\ issued' = TextCallOrder
          /\ response' = Null
  /\ UNCHANGED <<caller, backend, ui, clock, deleted, parserVars, sessions>>

\* the handler takes a request: validation, then generateAll issues its five text calls
Request(challenge, sessionId) ==
  /\ caller = "handleGenerate"
  /\ pc \in {"idle", "resolved", "rejected"}
  /\ requests < MaxRequests
  /\ requests' = requests + 1
  /\ request' = [challenge |-> challenge, sessionId |-> sessionId]
  /\ textValues' = NoValues
  /\ sketchPrompts' = <<>>
  /\ imageCalls' = <<>>
  /\ images' = Null
  /\ conceptCall' = "unissued"
  /\ sketchConcepts' = Null
  /\ result' = Null
  /\ failure' = Null
  /\ IF Trim(challenge) = ""
     THEN /\ pc' = "idle"
          /\ textCalls' = NoCalls
          /\ issued' = <<>>
          /\ response' = ErrorResponse(400, "Challenge text is required")
     ELSE /\ pc' = "stage1"
          /\ textCalls' = [c \in TextCallNames |-> "pending"]
          /\ issued' = TextCallOrder
          /\ response' = Null
  /\ UNCHANGED <<caller, backend, ui, clock, deleted, parserVars, sessions>>

\* the text service answers stage-1 call c
TextFulfil(c, text) ==
  /\ caller \in Handlers
  /\ textCalls[c] = "pending"
  /\ \E r \in {ParseReply(c, text)} :
     \E calls \in {[textCalls EXCEPT ![c] = "fulfilled"]} :
     \E values \in {[textValues EXCEPT ![c] = Some(r.value)]} :
        IF r.threw
        THEN Stage1Rejects(c, PushTypeError)
        ELSE /\ textCalls' = calls
             /\ textValues' = values
             /\ IF pc = "stage1" /\ Stage1Done(calls)
                THEN CallImages(values["sketch"][1])
                ELSE UNCHANGED <<pc, sketchPrompts, imageCalls, images, conceptCall, issued>>
             /\ UNCHANGED <<sketchConcepts, result, failure, response, sessions>>
  /\ UNCHANGED <<caller, backend, ui, clock, deleted, parserVars, requests, request>>

\* the text service fails stage-1 call c
TextReject(c, msg) ==
  /\ caller \in Handlers
  /\ textCalls[c] = "pending"
  /\ Stage1Rejects(c, msg)
  /\ UNCHANGED <<caller, backend, ui, clock, deleted, parserVars, requests, request>>

\* image request i settles; when it is the last one, generateImages returns
ImageSettles(i, settled) ==
  /\ pc = "images"
  /\ i \in 1..Len(imageCalls)
  /\ imageCalls[i].status = "pending"
  /\ \E calls \in {[imageCalls EXCEPT ![i] = settled]} :
        /\ imageCalls' = calls
        /\ IF AllSettled(calls)
           THEN /\ images' = Some(generateImages(calls))
                /\ IF caller = "generateImages"
                   THEN pc' = "returned" /\ UNCHANGED <<conceptCall, issued>>
                   ELSE CallConcepts
           ELSE UNCHANGED <<images, pc, conceptCall, issued>>
  /\ UNCHANGED <<caller, backend, ui, clock, deleted, parserVars, handlerVars, textCalls, textValues, sketchPrompts,
                 sketchConcepts, result, failure>>

ImageFulfil(i) ==
  /\ i \in 1..Len(imageCalls)
  /\ ImageSettles(i, [prompt |-> imageCalls[i].prompt, status |-> "fulfilled",
                      data |-> <<[url |-> UrlOf(imageCalls[i].prompt),
                                  revised_prompt |-> RevisedOf(imageCalls[i].prompt)]>>])

ImageNoData(i) ==
  /\ i \in 1..Len(imageCalls)
  /\ ImageSettles(i, [prompt |-> imageCalls[i].prompt, status |-> "fulfilled", data |-> <<>>])

ImageReject(i, msg) ==
  /\ i \in 1..Len(imageCalls)
  /\ ImageSettles(i, [prompt |-> imageCalls[i].prompt, status |-> "rejected", reason |-> msg])

\* the concept text call settles: generateSketchConcepts returns; in generateAll the
\* result is assembled and the handler stores it and answers
ConceptSettles(outcome, fault) ==
  /\ pc = "concepts"
  /\ conceptCall = "pending"
  /\ conceptCall' = outcome.status
  /\ \E concepts \in {generateSketchConcepts(sketchPrompts, outcome)} :
        /\ sketchConcepts' = Some(concepts)
        /\ IF caller = "generateSketchConcepts"
           THEN pc' = "returned" /\ UNCHANGED <<result, response, sessions>>
           ELSE \E res \in {Assemble(textValues, sketchPrompts, images[1], concepts)} :
                /\ pc' = "resolved"
                /\ result' = Some(res)
                /\ sessions' = Persist(sessions, request, res, fault)
                /\ response' = OkResponse(res)
  /\ UNCHANGED <<caller, backend, ui, clock, deleted, parserVars, requests, request, textCalls, textValues,
                 sketchPrompts, imageCalls, images, failure, issued>>

----------------------------------------------------------------------------
(* The session store over time *)

MaxTicks == 3

\* days the clock advances by
ClockSteps == {1, 179}

ClockStart == [now |-> 0, ticks |-> 0]

\* time passes
Tick(days) ==
  /\ caller = "SessionStore"
  /\ clock.ticks < MaxTicks
  /\ clock' = [now |-> clock.now + days, ticks |-> clock.ticks + 1]
  /\ UNCHANGED <<caller, backend, parserVars, invocationVars, handlerVars, ui, deleted>>

\* sessionStore.createSession(sessionId, challenge, '', '') for a session not stored yet
CreateSession(id, challengeText) ==
  /\ caller = "SessionStore"
  /\ id \notin DOMAIN sessions
  /\ sessions' = Stamp(createSession(sessions, id, challengeText), id, clock.now)
  /\ UNCHANGED <<caller, backend, parserVars, invocationVars, requests, request, response, ui,
                 clock, deleted>>

\* sessionStore.purgeExpiredSessions() with the default retention
Purge ==
  /\ caller = "SessionStore"
  /\ \E purged \in {purgeExpiredSessions(sessions, RetentionDays, clock.now)} :
        /\ sessions' = purged.sessions
        /\ deleted' = Some(purged.deleted)
  /\ UNCHANGED <<caller, backend, parserVars, invocationVars, requests, request, response, ui,
                 clock>>

----------------------------------------------------------------------------
(* The session store and its backend: constructor, createSession, getSession *)

\* new SessionStore(databasePath) off Vercel: the Map is in use, the import is pending
BackendStart ==
  [inMemory |-> TRUE, db |-> Null, import |-> "pending", created |-> {}, last |-> Null]

\* why the SQLite backend does not come up: the module is missing, or the database fails
ImportFaults == {"module", "database"}

\* JSON.parse of a stored column, [] for a column never written
ParseColumn(column) == IF column = Null THEN <<>> ELSE column[1].json

\* getSession(sessionId) on the rows of the backend in use: null, or the session
getSession(store, id) ==
  IF id \notin DOMAIN store
  THEN Null
  ELSE Some([session_id |-> store[id].session_id,
             user_name |-> store[id].user_name,
             user_email |-> store[id].user_email,
             challenge_text |-> store[id].challenge_text,
             hmw_results |-> ParseColumn(store[id].hmw_results),
             sketch_prompts |-> ParseColumn(store[id].sketch_prompts),
             image_urls |-> ParseColumn(store[id].image_urls),
             layout_results |-> ParseColumn(store[id].layout_results)])

\* this.inMemory, after the `if (!this.db)` fallback of createSession and getSession
UsesMap(b) == b.inMemory \/ b.db = Null

\* import('better-sqlite3') resolves and the database opens: the store switches to SQLite
ImportResolves ==
  /\ caller \in {"new SessionStore", "SessionStore modes"}
  /\ backend.import = "pending"
  /\ backend' = [backend EXCEPT !.inMemory = FALSE, !.db = Some([k \in {} |-> Null]),
                                !.import = "resolved"]
  /\ UNCHANGED <<caller, parserVars, invocationVars, handlerVars, ui, clock, deleted>>

\* the import rejects, or new Database(...) throws: the store stays on the Map
ImportFails(fault) ==
  /\ caller = "new SessionStore"
  /\ backend.import = "pending"
  /\ backend' = [backend EXCEPT !.inMemory = TRUE, !.import = fault]
  /\ UNCHANGED <<caller, parserVars, invocationVars, handlerVars, ui, clock, deleted>>

\* createSession(sessionId, challengeText): Map.set, or INSERT under UNIQUE(session_id)
StoreCreate(id, challengeText) ==
  /\ caller = "new SessionStore"
  /\ IF UsesMap(backend)
     THEN /\ sessions' = createSession(sessions, id, challengeText)
          /\ backend' = [backend EXCEPT !.inMemory = TRUE, !.created = @ \cup {id},
                            !.last = Some([fn |-> "createSession", id |-> id,
                                           value |-> Some(id)])]
     ELSE IF id \in DOMAIN backend.db[1]
     THEN /\ backend' = [backend EXCEPT
                            !.last = Some([fn |-> "createSession", id |-> id,
                                           value |-> Null])]
          /\ UNCHANGED sessions
     ELSE /\ backend' = [backend EXCEPT
                            !.db = Some(createSession(@[1], id, challengeText)),
                            !.created = @ \cup {id},
                            !.last = Some([fn |-> "createSession", id |-> id,
                                           value |-> Some(id)])]
          /\ UNCHANGED sessions
  /\ UNCHANGED <<caller, parserVars, invocationVars, requests, request, response, ui,
                 clock, deleted>>

\* getSession(sessionId): reads the Map, or the sessions table
StoreGet(id) ==
  /\ caller = "new SessionStore"
  /\ \E rows \in {IF UsesMap(backend) THEN sessions ELSE backend.db[1]} :
        backend' = [backend EXCEPT !.inMemory = UsesMap(backend),
                       !.last = Some([fn |-> "getSession", id |-> id,
                                      value |-> getSession(rows, id)])]
  /\ UNCHANGED <<caller, parserVars, invocationVars, handlerVars, ui, clock, deleted>>

----------------------------------------------------------------------------
(* The two modes of the session store side by side: the Map and SQLite *)

\* payloads handed to updateSession: no field, one field, all four
Payloads ==
  {[k \in {} |-> <<>>],
   [hmw_results |-> <<"theme">>],
   [hmw_results |-> <<"theme">>, sketch_prompts |-> <<"prompt">>,
    image_urls |-> <<>>, layout_results |-> <<"layout">>]}

\* the columns of the payload are written as JSON text, the others stay
SetColumns(row, payload) ==
  [k \in DOMAIN row |-> IF k \in DOMAIN payload THEN Some(Stringify(payload[k])) ELSE row[k]]

\* what a call did: the store after it, the value returned, whether it threw
Outcome(store, value, threw) == [store |-> store, value |-> value, threw |-> threw]

\* createSession in memory: this.sessions.set(sessionId, {...})
MapCreate(store, id, challengeText) ==
  Outcome(createSession(store, id, challengeText), Some(id), FALSE)

\* createSession on SQLite: INSERT, which fails on a session_id already there
SqlCreate(store, id, challengeText) ==
  IF id \in DOMAIN store
  THEN Outcome(store, Null, TRUE)
  ELSE Outcome(createSession(store, id, challengeText), Some(id), FALSE)

\* updateSession in memory: an unknown session throws, else the fields given are set
MapUpdate(store, id, payload) ==
  IF id \notin DOMAIN store
  THEN Outcome(store, Null, TRUE)
  ELSE Outcome([store EXCEPT ![id] = SetColumns(@, payload)], Null, FALSE)

\* updateSession on SQLite: nothing to set returns at once; no row changed throws
SqlUpdate(store, id, payload) ==
  IF DOMAIN payload = {} THEN Outcome(store, Null, FALSE)
  ELSE IF id \notin DOMAIN store THEN Outcome(store, Null, TRUE)
  ELSE Outcome([store EXCEPT ![id] = SetColumns(@, payload)], Null, FALSE)

\* the same call has been made on both stores: what each returned or threw
Both(fn, id, map, sql) ==
  /\ sessions' = map.store
  /\ backend' = [backend EXCEPT !.db = Some(sql.store),
                    !.last = Some([fn |-> fn, id |-> id,
                                   map |-> [value |-> map.value, threw |-> map.threw],
                                   sql |-> [value |-> sql.value, threw |-> sql.threw]])]
  /\ UNCHANGED <<caller, parserVars, invocationVars, requests, request, response, ui,
                 clock, deleted>>

\* createSession(id, challengeText) on the in-memory store and on the SQLite store
CreateInBoth(id, challengeText) ==
  /\ caller = "SessionStore modes" /\ backend.import = "resolved"
  /\ Both("createSession", id, MapCreate(sessions, id, challengeText),
          SqlCreate(backend.db[1], id, challengeText))

\* updateSession(id, payload) on the in-memory store and on the SQLite store
UpdateInBoth(id, payload) ==
  /\ caller = "SessionStore modes" /\ backend.import = "resolved"
  /\ Both("updateSession", id, MapUpdate(sessions, id, payload),
          SqlUpdate(backend.db[1], id, payload))

\* getSession(id) on the in-memory store and on the SQLite store
GetFromBoth(id) ==
  /\ caller = "SessionStore modes" /\ backend.import = "resolved"
  /\ Both("getSession", id, Outcome(sessions, getSession(sessions, id), FALSE),
          Outcome(backend.db[1], getSession(backend.db[1], id), FALSE))

----------------------------------------------------------------------------
(* The page: handleGenerate and the Cancel Generation button of App *)

MaxFetches == 3

\* error messages of a failed fetch: the error field of a 500 body, or none
FetchErrors == {"Failed to generate HMW statements: 429 rate limit exceeded", ""}

UiStart ==
  [isGenerating |-> FALSE, errorMessage |-> "", generationComplete |-> FALSE,
   results |-> 0, fetches |-> <<>>, cancelled |-> {}, refinements |-> {},
   challengeText |-> "", historyStack |-> <<>>, currentRefinement |-> Null,
   started |-> <<>>]

\* the message the catch block of handleGenerate displays
DisplayMessage(message) ==
  The({IF Includes(ToLowerCase(msg), "rate limit") \/ Includes(msg, "429")
       THEN "Rate limit reached. Please wait a moment and try again."
       ELSE IF Includes(msg, "API key") \/ Includes(msg, "OPENAI_API_KEY")
       THEN "API key not configured. Please set OPENAI_API_KEY in your .env file."
       ELSE msg
       : msg \in {IF message = "" THEN "Generation failed" ELSE message}})

\* the message the catch block of handleBuildOnSelected displays
RefineMessage(message) ==
  The({IF Includes(ToLowerCase(msg), "rate limit") \/ Includes(msg, "429")
       THEN "Rate limit reached. Please wait a moment and try again."
       ELSE "Refinement failed: " \o msg
       : msg \in {IF message = "" THEN "Refinement failed" ELSE message}})

\* hasResults: the results section, with its Build on Selected Ideas button, is shown
hasResults == ui.generationComplete \/ ui.results # 0

\* what the page shows when a request starts: results, history and refinement label
Shown(u) ==
  [results |-> u.results, historyStack |-> u.historyStack,
   currentRefinement |-> u.currentRefinement]

\* saveStateToHistory(): the results, the label and the challenge text are pushed
saveStateToHistory(u) ==
  [u EXCEPT !.historyStack = Append(@, [results |-> u.results,
                                        currentRefinement |-> u.currentRefinement,
                                        challengeText |-> u.challengeText])]

\* a Back that leaves the refinement label as it is
restoreStateFromHistoryKeepsLabel(u) ==
  IF Len(u.historyStack) = 0 THEN u
  ELSE The({[u EXCEPT !.results = previousState.results,
                      !.challengeText = previousState.challengeText,
                      !.generationComplete = TRUE,
                      !.historyStack = SubSeq(@, 1, Len(@) - 1)]
            : previousState \in {u.historyStack[Len(u.historyStack)]}})

\* restoreStateFromHistory(): the last entry is shown again and taken off the stack
restoreStateFromHistory(u) ==
  IF Len(u.historyStack) = 0 THEN u
  ELSE The({[u EXCEPT !.results = previousState.results,
                      !.currentRefinement = previousState.currentRefinement,
                      !.challengeText = previousState.challengeText,
                      !.generationComplete = TRUE,
                      !.historyStack = SubSeq(@, 1, Len(@) - 1)]
            : previousState \in {u.historyStack[Len(u.historyStack)]}})

\* the challenge box is edited: onChange sets challengeText
TypeChallenge(text) ==
  /\ caller = "App"
  /\ text # ui.challengeText
  /\ ui' = [ui EXCEPT !.challengeText = text]
  /\ UNCHANGED <<caller, backend, parserVars, invocationVars, handlerVars, clock, deleted>>

\* Back is clicked; the button is rendered with the results while nothing is generated
ClickBack ==
  /\ caller = "App"
  /\ hasResults /\ ~ui.isGenerating
  /\ Len(ui.historyStack) > 0 \/ ui.currentRefinement # Null
  /\ ui' = restoreStateFromHistory(ui)
  /\ UNCHANGED <<caller, backend, parserVars, invocationVars, handlerVars, clock, deleted>>

\* Build on Selected Ideas is clicked with ideas selected: handleBuildOnSelected up to
\* its await fetch(...); the button is rendered while hasResults && !isGenerating
ClickBuildOnSelected ==
  /\ caller = "App"
  /\ hasResults /\ ~ui.isGenerating
  /\ Len(ui.fetches) < MaxFetches
  /\ ui' = [saveStateToHistory(ui) EXCEPT
                      !.isGenerating = TRUE, !.errorMessage = "",
                      !.currentRefinement = Some(ui.results),
                      !.fetches = Append(@, "pending"),
                      !.started = Append(@, Shown(ui)),
                      !.refinements = @ \cup {Len(ui.fetches) + 1}]
  /\ UNCHANGED <<caller, backend, parserVars, invocationVars, handlerVars, clock, deleted>>

\* Generate Concepts is clicked: handleGenerate up to its await fetch(...)
ClickGenerate(challengeText) ==
  /\ caller = "App"
  /\ challengeText = ui.challengeText
  /\ ~(Trim(challengeText) = "" \/ ui.isGenerating)
  /\ Len(ui.fetches) < MaxFetches
  /\ ui' = [ui EXCEPT !.isGenerating = TRUE, !.errorMessage = "",
                      !.generationComplete = FALSE, !.fetches = Append(@, "pending"),
                      !.historyStack = <<>>, !.currentRefinement = Null,
                      !.started = Append(@, Shown(ui))]
  /\ UNCHANGED <<caller, backend, parserVars, invocationVars, handlerVars, clock, deleted>>

\* Cancel Generation is clicked; cancelled records the fetches in flight at that time
ClickCancel ==
  /\ caller = "App"
  /\ ui.isGenerating
  /\ ui' = [ui EXCEPT !.isGenerating = FALSE, !.generationComplete = FALSE,
                      !.errorMessage = "Generation was cancelled.",
                      !.cancelled = @ \cup {n \in 1..Len(ui.fetches) :
                                               ui.fetches[n] = "pending"}]
  /\ UNCHANGED <<caller, backend, parserVars, invocationVars, handlerVars, clock, deleted>>

\* fetch n answers 200: the handler that started it, after its awaits, try and finally
FetchResolves(n) ==
  /\ caller = "App"
  /\ n \in 1..Len(ui.fetches)
  /\ ui.fetches[n] = "pending"
  /\ ui' = [ui EXCEPT !.fetches[n] = "done", !.results = n, !.generationComplete = TRUE,
                      !.errorMessage = "", !.isGenerating = FALSE]
  /\ UNCHANGED <<caller, backend, parserVars, invocationVars, handlerVars, clock, deleted>>

\* fetch n answers with an error body: the catch and finally blocks of its handler
FetchFails(n, message) ==
  /\ caller = "App"
  /\ n \in 1..Len(ui.fetches)
  /\ ui.fetches[n] = "pending"
  /\ ui' = [ui EXCEPT !.fetches[n] = "done",
                      !.errorMessage = IF n \in ui.refinements THEN RefineMessage(message)
                                       ELSE DisplayMessage(message),
                      !.generationComplete = FALSE, !.isGenerating = FALSE]
  /\ UNCHANGED <<caller, backend, parserVars, invocationVars, handlerVars, clock, deleted>>

----------------------------------------------------------------------------
(* Direct calls of the parsers *)

Grammars == {"hmw", "features", "layout", "concepts", "context", "sketch"}

\* lines the reply texts of each grammar are built from
Lines(g) ==
  CASE g = "hmw" ->
         {"", "Theme 1: A", "Theme 2: 7", "Notes: misc", "1. Improve lighting",
          "- How might we add seating?", "too short", "How might we add WiFi here?",
          "2. how might we fix it", "3. Improve WiFi coverage"}
    [] g = "features" ->
         {"", "Theme 1: A", "Theme 2: 7", "Notes: misc", "1. Bench ~ warm seat",
          "- Map - live times", "6. unmarked", "keeps riders warm",
          "2. Shelter ~ dry ~ and lit"}
    [] g = "layout" ->
         {"", "Theme 1: A", "Theme 2: 7", "Notes: misc", "1. Map first",
          "routes on top", "- Side: panel"}
    [] g = "concepts" ->
         {"", "1. Light for safety", "4. Warmth", "- Information", "more detail", "2."}
    [] g = "context" ->
         {"", "User Segment 1: Commuters", "Persona:", "Ana: a nurse", "Key Scenarios:",
          "- Night shift", "People who ride at night", "User Segment 2: Night: owls"}
    [] g = "sketch" ->
         {"", "1. a lit shelter", "- a heated bench", "4. a live map", "Three ideas:", "2."}

\* a reframe reply of two themes, the second item of the first without the phrase
ReframeReply ==
  Join(<<"Theme 1: Safety", "1. How might we improve lighting?",
         "2. Reduce wait-time anxiety", "", "Theme 2: Comfort",
         "1. How might we add seating?">>, "\n")

\* lines without a list marker that follow the title line of a layout
Continuations == {"routes on top", "stops below", "Note: live times", "3 routes on top"}

\* a layout reply: a title line, two more lines and a blank line, after the lines pre
LayoutReply(pre, first, second) ==
  Join(pre \o <<"1. Map first", first, second, "">>, "\n")

\* the lines before the title line: none, or a theme header
Preceding == {<<>>, <<"Theme 1: A">>}

\* a reply of n marked lines without a theme header, sep between them
FlatReply(n, sep) ==
  Join(Array([i \in 1..n |-> "- shelter idea " \o Char("abcdefghijklm", i)]), sep)

\* longer reply texts of each grammar
Scenarios(g) ==
  CASE g = "hmw" -> {ReframeReply} \cup {FlatReply(n, "\n") : n \in {5, 9, 13}}
    [] g = "layout" ->
         {LayoutReply(pre, first, second) :
            pre \in Preceding, first \in Continuations, second \in Continuations}
           \cup {FlatReply(n, "\n\n") : n \in {4, 7, 11}}
    [] g = "sketch" -> {FlatReply(n, "\n") : n \in {4, 5}}
    [] OTHER -> {}

\* the reply texts of at most MaxLines lines, and the longer ones
Contents(g) ==
  {Join(ls, "\n") : ls \in UNION {[1..n -> Lines(g)] : n \in 1..MaxLines}}
    \cup Scenarios(g)

\* the caller has the value the parser returned
Returned(fn, out) ==
  /\ parsed' = Some([fn |-> fn, out |-> out])
  /\ UNCHANGED <<caller, backend, ui, clock, deleted, content, grammar, invocationVars, handlerVars>>

ParseHMW ==
  /\ caller = "parser" /\ grammar = "hmw" /\ parsed = Null
  /\ \E out \in {parseHMWThemes(content)} : Returned("parseHMWThemes", out)

ParseFeatures ==
  /\ caller = "parser" /\ grammar = "features" /\ parsed = Null
  /\ \E out \in {parseFeatureThemes(content)} : Returned("parseFeatureThemes", out)

ParseLayout ==
  /\ caller = "parser" /\ grammar = "layout" /\ parsed = Null
  /\ \E out \in {parseLayoutThemes(content)} : Returned("parseLayoutThemes", out)

ParseSegments ==
  /\ caller = "parser" /\ grammar = "context" /\ parsed = Null
  /\ \E out \in {parseUserSegments(content)} : Returned("parseUserSegments", out)

\* generateSketchPrompts from the reply text on: the prompts it returns
ParsePrompts ==
  /\ caller = "parser" /\ grammar = "sketch" /\ parsed = Null
  /\ \E out \in {parseSketchPrompts(content)} :
       Returned("generateSketchPrompts", [threw |-> FALSE, themes |-> out])

ParseConcepts ==
  /\ caller = "parser" /\ grammar = "concepts" /\ parsed = Null
  /\ \E out \in {parseSketchConcepts(content)} :
       Returned("parseSketchConcepts", [threw |-> FALSE, themes |-> out])

----------------------------------------------------------------------------
(* Specifications *)

\* nothing in flight, nothing stored
Idle ==
  /\ content = ""
  /\ grammar = ""
  /\ parsed = Null
  /\ pc = "idle"
  /\ requests = 0
  /\ request = [challenge |-> "", sessionId |-> Null]
  /\ textCalls = NoCalls
  /\ textValues = NoValues
  /\ sketchPrompts = <<>>
  /\ imageCalls = <<>>
  /\ images = Null
  /\ conceptCall = "unissued"
  /\ sketchConcepts = Null
  /\ result = Null
  /\ failure = Null
  /\ response = Null
  /\ sessions = [k \in {} |-> Null]
  /\ issued = <<>>
  /\ ui = UiStart
  /\ backend = BackendStart
  /\ clock = ClockStart
  /\ deleted = Null

\* the server after start-up
Init == caller = "handleGenerate" /\ Idle

Next ==
  \/ \E challenge \in Challenges, sessionId \in SessionIds : Request(challenge, sessionId)
  \/ \E c \in TextCallNames : \E text \in Replies(c) : TextFulfil(c, text)
  \/ \E c \in TextCallNames, msg \in ErrorMessages : TextReject(c, msg)
  \/ \E i \in 1..3 : ImageFulfil(i)
  \/ \E i \in 1..3 : ImageNoData(i)
  \/ \E i \in 1..3, msg \in ImageErrors : ImageReject(i, msg)
  \/ \E text \in Replies("concepts"), fault \in StoreFaults :
       ConceptSettles([status |-> "fulfilled", text |-> text], fault)
  \/ \E fault \in StoreFaults : ConceptSettles([status |-> "rejected"], fault)

Spec == Init /\ [][Next]_vars

\* message.content || '': the text service answers every call without content
EmptyReply == ""

\* reply texts while settlement is studied: the two themed replies, else no content
LiveReplies(c) == IF c = "hmw" THEN Replies(c) ELSE {EmptyReply}

\* stage-1 call c settles, one way or the other
TextSettles(c) ==
  \/ \E text \in LiveReplies(c) : TextFulfil(c, text)
  \/ \E msg \in ErrorMessages : TextReject(c, msg)

\* image request i settles, one way or the other
ImageSettled(i) ==
  \/ ImageFulfil(i)
  \/ ImageNoData(i)
  \/ \E msg \in ImageErrors : ImageReject(i, msg)

\* the concept text call settles, one way or the other
ConceptSettled ==
  \/ \E text \in LiveReplies("concepts") :
       ConceptSettles([status |-> "fulfilled", text |-> text], "none")
  \/ ConceptSettles([status |-> "rejected"], "none")

\* every upstream call that has been issued settles in the end
UpstreamSettles ==
  /\ \A c \in TextCallNames : WF_vars(TextSettles(c))
  /\ \A i \in 1..3 : WF_vars(ImageSettled(i))
  /\ WF_vars(ConceptSettled)

\* the server while the text and image services answer every call in the end
NextLive ==
  \/ \E challenge \in Challenges : Request(challenge, Null)
  \/ \E c \in TextCallNames : TextSettles(c)
  \/ \E i \in 1..3 : ImageSettled(i)
  \/ ConceptSettled

SpecLive == Init /\ [][NextLive]_vars /\ UpstreamSettles

\* the handler while the text service returns no content to any call
NextEmpty ==
  \/ \E challenge \in Challenges, sessionId \in SessionIds : Request(challenge, sessionId)
  \/ \E c \in TextCallNames : TextFulfil(c, EmptyReply)
  \/ \E i \in 1..3 : ImageFulfil(i)
  \/ \E i \in 1..3 : ImageNoData(i)
  \/ \E i \in 1..3, msg \in ImageErrors : ImageReject(i, msg)
  \/ \E fault \in StoreFaults :
       ConceptSettles([status |-> "fulfilled", text |-> EmptyReply], fault)

SpecEmpty == Init /\ [][NextEmpty]_vars

\* either entry point after start-up
InitEntry == caller \in Handlers /\ Idle

NextEntry ==
  \/ \E challenge \in Challenges, sessionId \in SessionIds : Request(challenge, sessionId)
  \/ \E method \in Methods, body \in Bodies, apiKey \in ApiKeys :
       ServerlessRequest(method, body, apiKey)
  \/ \E c \in TextCallNames : TextSettles(c)
  \/ \E i \in 1..3 : ImageSettled(i)
  \/ ConceptSettled

SpecEntry == InitEntry /\ [][NextEntry]_vars

\* the page after it has loaded
InitUI == caller = "App" /\ Idle

NextUI ==
  \/ \E challengeText \in Challenges : ClickGenerate(challengeText)
  \/ \E text \in Challenges : TypeChallenge(text)
  \/ ClickBuildOnSelected
  \/ ClickBack
  \/ ClickCancel
  \/ \E n \in 1..MaxFetches : FetchResolves(n)
  \/ \E n \in 1..MaxFetches, message \in FetchErrors : FetchFails(n, message)

SpecUI == InitUI /\ [][NextUI]_vars

\* a session store after construction
InitPurge == caller = "SessionStore" /\ Idle

NextPurge ==
  \/ \E days \in ClockSteps : Tick(days)
  \/ \E id \in {"s1", "s2"}, challengeText \in {"Improve the bus stop"} :
       CreateSession(id, challengeText)
  \/ Purge

SpecPurge == InitPurge /\ [][NextPurge]_vars

\* a session store right after its constructor has returned
InitStore == caller = "new SessionStore" /\ Idle

NextStore ==
  \/ ImportResolves
  \/ \E fault \in ImportFaults : ImportFails(fault)
  \/ \E id \in {"s1", "s2"}, challengeText \in Challenges : StoreCreate(id, challengeText)
  \/ \E id \in {"s1", "s2"} : StoreGet(id)

SpecStore == InitStore /\ [][NextStore]_vars

\* an in-memory store and a store whose database is about to open, both empty
InitModes == caller = "SessionStore modes" /\ Idle

NextModes ==
  \/ ImportResolves
  \/ \E id \in {"s1", "s2"}, challengeText \in {"Improve the bus stop"} :
       CreateInBoth(id, challengeText)
  \/ \E id \in {"s1", "s2"}, payload \in Payloads : UpdateInBoth(id, payload)
  \/ \E id \in {"s1", "s2"} : GetFromBoth(id)

SpecModes == InitModes /\ [][NextModes]_vars

\* a direct call generateImages(prompts)
InitImages ==
  /\ caller = "generateImages"
  /\ ui = UiStart
  /\ backend = BackendStart
  /\ clock = ClockStart
  /\ deleted = Null
  /\ content = ""
  /\ grammar = ""
  /\ parsed = Null
  /\ requests = 0
  /\ request = [challenge |-> "", sessionId |-> Null]
  /\ textCalls = NoCalls
  /\ textValues = NoValues
  /\ conceptCall = "unissued"
  /\ sketchConcepts = Null
  /\ result = Null
  /\ failure = Null
  /\ response = Null
  /\ sessions = [k \in {} |-> Null]
  /\ \E prompts \in PromptLists :
       /\ sketchPrompts = prompts
       /\ imageCalls = IssueImages(prompts)
       /\ issued = ImageLabels(Len(IssueImages(prompts)))
       /\ pc = IF Len(IssueImages(prompts)) = 0 THEN "returned" ELSE "images"
       /\ images = IF Len(IssueImages(prompts)) = 0 THEN Some(generateImages(<<>>)) ELSE Null

NextImages ==
  \/ \E i \in 1..3 : ImageFulfil(i)
  \/ \E i \in 1..3 : ImageNoData(i)
  \/ \E i \in 1..3, msg \in ImageErrors : ImageReject(i, msg)

SpecImages == InitImages /\ [][NextImages]_vars

\* a direct call generateSketchConcepts(challenge, prompts)
InitConcepts ==
  /\ caller = "generateSketchConcepts"
  /\ ui = UiStart
  /\ backend = BackendStart
  /\ clock = ClockStart
  /\ deleted = Null
  /\ content = ""
  /\ grammar = ""
  /\ parsed = Null
  /\ requests = 0
  /\ request = [challenge |-> "", sessionId |-> Null]
  /\ textCalls = NoCalls
  /\ textValues = NoValues
  /\ imageCalls = <<>>
  /\ images = Null
  /\ pc = "concepts"
  /\ conceptCall = "pending"
  /\ issued = <<"concepts">>
  /\ sketchConcepts = Null
  /\ result = Null
  /\ failure = Null
  /\ response = Null
  /\ sessions = [k \in {} |-> Null]
  /\ sketchPrompts \in PromptLists

NextConcepts ==
  \/ \E text \in Contents("concepts") :
       ConceptSettles([status |-> "fulfilled", text |-> text], "none")
  \/ ConceptSettles([status |-> "rejected"], "none")

SpecConcepts == InitConcepts /\ [][NextConcepts]_vars

\* a direct call of one parser on a reply text
InitParse ==
  /\ caller = "parser"
  /\ ui = UiStart
  /\ backend = BackendStart
  /\ clock = ClockStart
  /\ deleted = Null
  /\ grammar \in Grammars
  /\ content \in Contents(grammar)
  /\ parsed = Null
  /\ pc = "idle"
  /\ requests = 0
  /\ request = [challenge |-> "", sessionId |-> Null]
  /\ textCalls = NoCalls
  /\ textValues = NoValues
  /\ sketchPrompts = <<>>
  /\ imageCalls = <<>>
  /\ images = Null
  /\ conceptCall = "unissued"
  /\ sketchConcepts = Null
  /\ result = Null
  /\ failure = Null
  /\ response = Null
  /\ sessions = [k \in {} |-> Null]
  /\ issued = <<>>

NextParse ==
  ParseHMW \/ ParseFeatures \/ ParseLayout \/ ParseConcepts \/ ParseSegments \/ ParsePrompts

SpecParse == InitParse /\ [][NextParse]_vars

----------------------------------------------------------------------------
(* Properties of the parsers, under SpecParse *)

ThemeParsers == {"parseHMWThemes", "parseFeatureThemes", "parseLayoutThemes"}

\* C1: for every reply text, the output of parseHMWThemes, parseFeatureThemes and
\* parseLayoutThemes has at least one theme, and at least one of its themes holds
\* at least one item.
C1_OutputHasAnItem ==
  (parsed # Null /\ parsed[1].fn \in ThemeParsers) =>
     /\ ~parsed[1].out.threw
     /\ Len(parsed[1].out.themes) >= 1
     /\ \E i \in 1..Len(parsed[1].out.themes) : Len(parsed[1].out.themes[i].items) >= 1

\* C8: each theme parser outputs the themes in the order of their first appearance
\* in the reply: the order in which the loop over the lines opened them.
C8_ThemesInOrderOfAppearance ==
  (parsed # Null /\ parsed[1].fn \in ThemeParsers /\ ~parsed[1].out.threw) =>
     \A opened \in {(CASE grammar = "hmw" -> HMWLoop(Split(content, "\n"), 1, HMWStart)
                       [] grammar = "features" ->
                            FeatureLoop(Split(content, "\n"), 1, FeatureStart)
                       [] grammar = "layout" ->
                            LayoutLoop(Split(content, "\n"), 1, LayoutStart)).opened} :
        Len(opened) > 0 => Keys(parsed[1].out.themes) = opened

\* the statements of every theme of a parseHMWThemes output
Statements(themes) ==
  UNION {{themes[t].items[j] : j \in 1..Len(themes[t].items)} : t \in 1..Len(themes)}

\* C12: a reframe line that already begins with "How might we" is emitted with its
\* text unchanged, and an emitted statement read again as a reframe line is emitted
\* as that same statement.
C12_NormalizationIdempotent ==
  (parsed # Null /\ parsed[1].fn = "parseHMWThemes" /\ ~parsed[1].out.threw) =>
     \A lines \in {Split(content, "\n")} :
        /\ lines[1] = "Theme 1: A" =>
             \A i \in 2..Len(lines) :
                StartsWith(Trim(lines[i]), "How might we") =>
                   Trim(lines[i]) \in Statements(parsed[1].out.themes)
        /\ \A statement \in Statements(parsed[1].out.themes) :
             Statements(HMWLine(OpenTheme(HMWStart, "A"), statement).themes) = {statement}

\* C13: every statement of every theme that parseHMWThemes returns, from the loop,
\* the marker fallback or the placeholder, begins with the phrase "How might we".
C13_StatementsBeginWithPhrase ==
  (parsed # Null /\ parsed[1].fn = "parseHMWThemes" /\ ~parsed[1].out.threw) =>
     \A statement \in Statements(parsed[1].out.themes) :
        StartsWith(statement, "How might we")

\* C14: parseHMWThemes maps the reply "Theme 1: Safety", "1. How might we improve
\* lighting?", "2. Reduce wait-time anxiety", blank, "Theme 2: Comfort", "1. How
\* might we add seating?" to exactly the themes Safety and Comfort, in that order,
\* with the second statement of Safety prefixed and lower-cased.
C14_TwoThemesFromReply ==
  (parsed # Null /\ content = ReframeReply) =>
     /\ parsed[1].fn = "parseHMWThemes"
     /\ ~parsed[1].out.threw
     /\ parsed[1].out.themes =
          <<[name |-> "Safety",
             items |-> <<"How might we improve lighting?",
                         "How might we reduce wait-time anxiety">>],
            [name |-> "Comfort", items |-> <<"How might we add seating?">>]>>

C14_ReplyParsed == parsed # Null /\ content = ReframeReply

\* the layout records of every theme of a parseLayoutThemes output, in order
RECURSIVE Layouts(_)
Layouts(themes) ==
  IF Len(themes) = 0 THEN <<>>
  ELSE themes[1].items \o Layouts(Tail(themes))

\* C15: a title line followed by two non-blank lines without a list marker and then
\* a blank line gives exactly one layout record, whose description is the two lines
\* joined by one space, whatever the two lines hold and with or without a theme
\* header before the title.
C15_ContinuationsJoined ==
  (parsed # Null /\ parsed[1].fn = "parseLayoutThemes") =>
     \A pre \in Preceding, first \in Continuations, second \in Continuations :
        content = LayoutReply(pre, first, second) =>
           /\ ~parsed[1].out.threw
           /\ Layouts(parsed[1].out.themes) =
                <<[title |-> "Map first", description |-> first \o " " \o second]>>

\* C17: for every reply text, the empty one and those without a "User Segment"
\* marker included, parseUserSegments returns at least one segment.
C17_AtLeastOneSegment ==
  (parsed # Null /\ parsed[1].fn = "parseUserSegments") => Len(parsed[1].out) >= 1

C17_PlaceholderWithoutMarker ==
  /\ parsed # Null /\ parsed[1].fn = "parseUserSegments"
  /\ content # "" /\ ~Includes(content, "User Segment")
  /\ parsed[1].out = SegmentPlaceholder

\* the line is an explicit theme header: "Theme", any case, and a colon
IsThemeHeader(line) == StartsWith(ToLowerCase(Trim(line)), "theme") /\ Includes(line, ":")

\* the theme names the explicit headers of the reply give
ThemeHeaderNames(lines) ==
  {Trim(SplitLimit(Trim(lines[i]), ":", 2)[2]) :
     i \in {k \in 1..Len(lines) : IsThemeHeader(lines[k])}}

\* C21: in every theme grammar a line with a colon, no digit before it and fewer
\* than 50 characters before it names a theme only while no theme is open: in a
\* reply that starts with an explicit header, every theme of the output is named
\* by an explicit header.
C21_HeuristicHeaderOnlyBeforeTheme ==
  (parsed # Null /\ parsed[1].fn \in ThemeParsers /\ ~parsed[1].out.threw) =>
     \A lines \in {Split(content, "\n")} :
        IsThemeHeader(lines[1]) =>
           \A t \in 1..Len(parsed[1].out.themes) :
              parsed[1].out.themes[t].name \in ThemeHeaderNames(lines)

\* the line begins with a numeric marker "1." to "5.", a bullet or a dash
IsMarked(line) ==
  \E prefix \in {"1.", "2.", "3.", "4.", "5.", Bullet, "-"} : StartsWith(Trim(line), prefix)

\* the number of records of all themes of an output
RECURSIVE Records(_)
Records(themes) ==
  IF Len(themes) = 0 THEN 0 ELSE Len(themes[1].items) + Records(Tail(themes))

\* C22: in every theme grammar a line that begins with a list marker and is read
\* while a theme is open starts a record of its own: in a reply that starts with
\* an explicit header the output holds at least one record for each such line.
C22_MarkedLineStartsRecord ==
  (parsed # Null /\ parsed[1].fn \in ThemeParsers /\ ~parsed[1].out.threw) =>
     \A lines \in {Split(content, "\n")} :
        IsThemeHeader(lines[1]) =>
           Records(parsed[1].out.themes) >=
              Cardinality({k \in 2..Len(lines) : IsMarked(lines[k])})

\* a non-blank line that is neither a header nor a list item
IsPlain(line) ==
  /\ Trim(line) # ""
  /\ ~Includes(line, ":")
  /\ ~IsMarked(line)
  /\ Char(Trim(line), 1) \notin Digits

\* the records of the reply made of the first n lines, as the parser of g returns them
RecordsOf(g, lines, n) ==
  Layouts(IF g = "features"
          THEN parseFeatureThemes(Join(SubSeq(lines, 1, n), "\n")).themes
          ELSE parseLayoutThemes(Join(SubSeq(lines, 1, n), "\n")).themes)

\* record after is record before with the line appended to its free-text field
Continued(g, before, after, line) ==
  IF g = "features"
  THEN /\ after.feature = before.feature
       /\ after.rationale =
            (IF before.rationale = "" THEN "" ELSE before.rationale \o " ") \o Trim(line)
  ELSE /\ after.title = before.title
       /\ after.description =
            (IF before.description = "" THEN "" ELSE before.description \o " ") \o Trim(line)

\* C23: in the feature and layout grammars a plain line read while a record is open
\* is appended, after one space, to the rationale or description of that record, and
\* the feature label or title stays as it was: header, list item, plain line gives
\* the record of header, list item with the plain line appended.
C23_ContinuationAppended ==
  (parsed # Null /\ grammar \in {"features", "layout"} /\ ~parsed[1].out.threw) =>
     \A lines \in {Split(content, "\n")} :
        (Len(lines) = 3 /\ IsThemeHeader(lines[1]) /\ IsMarked(lines[2])
           /\ IsPlain(lines[3])) =>
           \A before \in {RecordsOf(grammar, lines, 2)} :
              Len(before) = 1 =>
                 /\ Len(Layouts(parsed[1].out.themes)) = 1
                 /\ Continued(grammar, before[1], Layouts(parsed[1].out.themes)[1], lines[3])

\* the text with its first character in lower case
LowerFirst(text) ==
  IF text = "" THEN "" ELSE LowerChar(Char(text, 1)) \o SubSeq(text, 2, Len(text))

\* the texts a line ends with
Suffixes(line) == {SubSeq(line, i, Len(line)) : i \in 1..Len(line)}

\* C24: when the reframe parser prefixes a statement with "How might we" it changes
\* the case of the first letter of the remainder only: a statement read under a
\* header is the end of its line, as it is or after the phrase with its first
\* letter in lower case.
C24_OnlyFirstLetterLowered ==
  (parsed # Null /\ parsed[1].fn = "parseHMWThemes" /\ ~parsed[1].out.threw) =>
     \A lines \in {Split(content, "\n")} :
        (Len(lines) = 2 /\ IsThemeHeader(lines[1])) =>
           \A statement \in Statements(parsed[1].out.themes) :
              \E rest \in Suffixes(Trim(lines[2])) :
                 \/ statement = rest
                 \/ statement = "How might we " \o LowerFirst(rest)

\* the text of a marked line after its marker
ItemText(line) ==
  IF \E prefix \in {"1.", "2.", "3.", "4.", "5."} : StartsWith(Trim(line), prefix)
  THEN Trim(Substring(Trim(line), 2))
  ELSE Trim(Substring(Trim(line), 1))

\* the text before the first sep and everything after it
SplitAtFirst(text, sep) ==
  [feature |-> Trim(SubSeq(text, 1, IndexOf(text, sep) - 1)),
   rationale |-> Trim(SubSeq(text, IndexOf(text, sep) + Len(sep), Len(text)))]

\* C25: in the feature grammar the text of a list item is split at its first
\* em-dash, or else at its first " - ", into the feature before it and the rationale,
\* everything after it; without a separator the text is the feature and the
\* rationale is empty.
C25_SplitAtFirstSeparator ==
  (parsed # Null /\ parsed[1].fn = "parseFeatureThemes" /\ ~parsed[1].out.threw) =>
     \A lines \in {Split(content, "\n")} :
        (Len(lines) = 2 /\ IsThemeHeader(lines[1]) /\ IsMarked(lines[2])
           /\ ~Includes(lines[2], ":")) =>
           \A text \in {ItemText(lines[2])} :
              Layouts(parsed[1].out.themes) =
                 <<IF Includes(text, EmDash) THEN SplitAtFirst(text, EmDash)
                   ELSE IF Includes(text, " - ") THEN SplitAtFirst(text, " - ")
                   ELSE [feature |-> text, rationale |-> ""]>>

\* the synthetic theme names of the marker fallback, in the order it assigns them
FallbackLabels(fn) ==
  IF fn = "parseHMWThemes" THEN <<"Reframing", "Exploration", "Innovation">>
  ELSE <<"Information Architecture", "Interaction Patterns", "Content Strategy">>

\* C26: when the loop finds no theme and the re-scan finds a flat list of at least
\* one item, the output has at most three themes, named by the first labels of the
\* fixed list in order, each theme holds at most four items, and the themes one
\* after the other are the flat list in its order.
C26_FallbackBuckets ==
  (parsed # Null /\ parsed[1].fn \in {"parseHMWThemes", "parseLayoutThemes"}
     /\ ~parsed[1].out.threw /\ Len(parsed[1].out.themes) > 0
     /\ parsed[1].out.themes[1].name = FallbackLabels(parsed[1].fn)[1]) =>
     \A themes \in {parsed[1].out.themes} :
        /\ Len(themes) <= 3
        /\ \A t \in 1..Len(themes) :
              /\ themes[t].name = FallbackLabels(parsed[1].fn)[t]
              /\ Len(themes[t].items) <= 4
        /\ Layouts(themes) = (IF parsed[1].fn = "parseHMWThemes"
                              THEN HMWFallbackStatements(content)
                              ELSE LayoutFallbackList(content))

\* the chunks after a "User Segment" marker that have a non-blank line
MarkedChunks(text) == SelectSeq(Tail(Split(text, "User Segment")), LAMBDA part : Trim(part) # "")

\* the name the first line of a chunk gives: the text after its colon, or the line
ChunkName(part) ==
  \* Trim removes the line breaks around the chunk, so the first piece is its first line
  LET first == Trim(Split(Trim(part), "\n")[1])
  IN  IF Includes(first, ":")
      THEN Trim(SubSeq(first, IndexOf(first, ":") + 1, Len(first)))
      ELSE first

\* C27: parseUserSegments yields one segment for every chunk that follows a "User
\* Segment" marker and has a non-blank line, in the order of the reply, named by the
\* text after the colon of the chunk's first line, or by that line without a colon.
C27_SegmentPerChunk ==
  (parsed # Null /\ parsed[1].fn = "parseUserSegments") =>
     \A chunks \in {MarkedChunks(content)} :
        Len(chunks) > 0 =>
           /\ Len(parsed[1].out) = Len(chunks)
           /\ \A i \in 1..Len(chunks) : parsed[1].out[i].segment_name = ChunkName(chunks[i])

\* the line starts with a digit, a bullet or a dash
IsItemStart(line) ==
  Trim(line) # "" /\ (Char(Trim(line), 1) \in Digits \/ Char(Trim(line), 1) \in {Bullet, "-"})

\* C28: parseSketchConcepts returns the first three segments of the reply in order,
\* padded with the generic sentence: every line that starts with a digit, a bullet
\* or a dash begins a new explanation holding the text of that line, and no
\* explanation is emitted twice. On a reply of item lines only, explanation i is
\* the end of line i and the rest is the generic sentence.
C28_ItemLineBeginsExplanation ==
  (parsed # Null /\ parsed[1].fn = "parseSketchConcepts") =>
     \A lines \in {Split(content, "\n")} :
        (Len(lines) <= 3 /\ \A i \in 1..Len(lines) : IsItemStart(lines[i])) =>
           /\ Len(parsed[1].out.themes) = 3
           /\ \A i \in 1..3 :
                 IF i <= Len(lines)
                 THEN parsed[1].out.themes[i] \in Suffixes(Trim(lines[i]))
                 ELSE parsed[1].out.themes[i] = GenericExplanation

\* a list item of a sketch reply: a line that starts with a digit, a bullet or a
\* dash and is more than one of the markers the parser strips
IsPromptItem(line) ==
  IsItemStart(line) /\ Trim(line) \notin {"1.", "2.", "3.", Bullet, "-"}

\* C36: generateSketchPrompts returns exactly three prompts for every reply text:
\* the first three list items, in order, when the reply has at least three, and
\* the three placeholder prompts otherwise, never a shorter or a mixed list; so
\* generateImages issues exactly three requests
C36_ThreePrompts ==
  (parsed # Null /\ parsed[1].fn = "generateSketchPrompts") =>
     \A out \in {parsed[1].out.themes} :
     \A items \in {SelectSeq(Split(content, "\n"), IsPromptItem)} :
        /\ Len(out) = 3
        /\ Len(IssueImages(out)) = 3
        /\ IF Len(items) >= 3
           THEN \A i \in 1..3 : out[i] \in Suffixes(Trim(items[i]))
           ELSE out = PlaceholderPrompts

\* a reply with two list items has been answered with the three placeholders
C36_PlaceholdersForTwoItems ==
  /\ parsed # Null /\ parsed[1].fn = "generateSketchPrompts"
  /\ content = "1. a lit shelter\n- a heated bench"
  /\ parsed[1].out.themes = PlaceholderPrompts

----------------------------------------------------------------------------
(* Properties of generateAll behind the handler, under Spec *)

SomeRejected == \E c \in TextCallNames : textCalls[c] = "rejected"
AllFulfilled == \A c \in TextCallNames : textCalls[c] = "fulfilled"
ImagePending == \E i \in 1..Len(imageCalls) : imageCalls[i].status = "pending"

\* C2: when one of the five stage-1 calls rejects, generateAll rejects and yields no
\* result, whatever the other four calls did, and the handler answers with a single
\* 500 error object.
C2_Stage1FailureIsTotal ==
  SomeRejected =>
     /\ pc = "rejected"
     /\ failure # Null
     /\ result = Null
     /\ response # Null
     /\ response[1].status = 500
     /\ DOMAIN response[1].body = {"error"}

\* four stage-1 calls have succeeded, the fifth has rejected, and the handler has answered
C2_FourSucceededOneRejected ==
  /\ \E c \in TextCallNames :
       /\ textCalls[c] = "rejected"
       /\ \A d \in TextCallNames \ {c} : textCalls[d] = "fulfilled" /\ textValues[d] # Null
  /\ pc = "rejected"
  /\ response # Null /\ response[1].status = 500

\* C4: in the result returned to the client, image_urls[i] is the image of
\* sketch_prompts[i], for every index i, also when some image requests fail.
C4_ImageUrlsAligned ==
  (pc = "resolved" /\ response # Null /\ response[1].status = 200) =>
     \A i \in 1..Len(response[1].body.image_urls) :
        response[1].body.image_urls[i] = UrlOf(response[1].body.sketch_prompts[i])

\* C5: once stage 1 has succeeded, no outcome of the image requests makes generateAll
\* reject, and the result it resolves with carries the five text sections as stage 1
\* returned them.
C5_ImageFailuresTolerated ==
  /\ AllFulfilled => (pc # "rejected" /\ failure = Null)
  /\ pc = "resolved" =>
       /\ result # Null
       /\ result[1].hmw = textValues["hmw"][1]
       /\ result[1].feature_ideas = textValues["features"][1]
       /\ result[1].sketch_prompts = textValues["sketch"][1]
       /\ result[1].layouts = textValues["layout"][1]
       /\ result[1].user_context = textValues["context"][1]
       /\ response # Null /\ response[1].status = 200

\* generateAll has resolved although all three image requests rejected
C5_ResolvedWithNoImage ==
  /\ pc = "resolved"
  /\ result # Null
  /\ Len(imageCalls) = 3
  /\ \A i \in 1..3 : imageCalls[i].status = "rejected"

\* C6: when the concept call fails, generateSketchConcepts returns the raw visual
\* prompts as the explanations and generateAll resolves.
C6_ConceptFailureCaught ==
  conceptCall = "rejected" =>
     /\ pc = "resolved"
     /\ failure = Null
     /\ sketchConcepts = Some(SubSeq(sketchPrompts, 1, Min(3, Len(sketchPrompts))))
     /\ result # Null
     /\ result[1].sketch_concepts = SubSeq(sketchPrompts, 1, Min(3, Len(sketchPrompts)))
     /\ response # Null /\ response[1].status = 200

\* the concept call has failed and generateAll has resolved
C6_ResolvedAfterConceptFailure ==
  /\ conceptCall = "rejected"
  /\ pc = "resolved"
  /\ result # Null /\ Len(result[1].sketch_concepts) = 3

\* C9, as stated: the concept call is issued without waiting for the image requests
\* to settle, so it is in flight whenever an image request is.
C9_ConceptIssuedWithImages == ImagePending => conceptCall = "pending"

\* C9, amended: the concept call is issued only after every image request has
\* settled; an image request and the concept call are never in flight together.
C9_ConceptAfterImages ==
  /\ ImagePending => conceptCall = "unissued"
  /\ conceptCall = "pending" => (pc = "concepts" /\ images # Null /\ ~ImagePending)

\* the three image requests have settled and the concept call is in flight
C9_ConceptInFlightImagesSettled ==
  /\ conceptCall = "pending"
  /\ Len(imageCalls) = 3
  /\ ~ImagePending
  /\ issued = TextCallOrder \o <<"image1", "image2", "image3", "concepts">>

\* C10: no image request and no concept call is issued before all five stage-1 calls
\* have succeeded, and none is issued for an invocation whose stage 1 failed.
C10_Stage2AfterStage1 ==
  /\ (imageCalls # <<>> \/ conceptCall # "unissued"
        \/ \E k \in 1..Len(issued) : issued[k] \notin TextCallNames) => AllFulfilled
  /\ (SomeRejected \/ pc = "rejected") =>
        (imageCalls = <<>> /\ conceptCall = "unissued" /\ issued = TextCallOrder)

\* the image requests have just been issued, all five stage-1 calls having succeeded
C10_ImagesJustIssued ==
  /\ pc = "images"
  /\ AllFulfilled
  /\ Len(imageCalls) = 3
  /\ \A i \in 1..3 : imageCalls[i].status = "pending"
  /\ issued = TextCallOrder \o <<"image1", "image2", "image3">>

TextLabels == TextCallNames \cup {"concepts"}

\* C11: an invocation that resolves has issued exactly six text calls, the five of
\* stage 1 and the concept call, and at most three image requests; no upstream call
\* is issued twice within one invocation, whether it resolves or rejects.
C11_CallsIssuedOnce ==
  /\ \A j, k \in 1..Len(issued) : issued[j] = issued[k] => j = k
  /\ pc = "resolved" =>
       /\ Cardinality({k \in 1..Len(issued) : issued[k] \in TextLabels}) = 6
       /\ Cardinality({k \in 1..Len(issued) : issued[k] \notin TextLabels}) <= 3
       /\ \A c \in TextLabels : \E k \in 1..Len(issued) : issued[k] = c

\* an invocation has resolved after six text calls and three image requests
C11_ResolvedAfterNineCalls ==
  /\ pc = "resolved"
  /\ Len(issued) = 9
  /\ Len(imageCalls) = 3

\* the row holds the four stored fields of the result, or none of them yet
StoredFrom(row, res) ==
  \/ /\ row.hmw_results = Null /\ row.sketch_prompts = Null
     /\ row.image_urls = Null /\ row.layout_results = Null
  \/ /\ row.hmw_results = Some(Stringify(res.hmw))
     /\ row.sketch_prompts = Some(Stringify(res.sketch_prompts))
     /\ row.image_urls = Some(Stringify(res.image_urls))
     /\ row.layout_results = Some(Stringify(res.layouts))

\* C19: the session store changes only in the step in which generateAll returns its
\* result and only for a request with a sessionId; a rejected generation writes
\* nothing; a row is updated only once it exists, with the reframe themes, visual
\* prompts, image URLs and layout themes of the result; and the request is answered
\* 200 with the result whether or not a store call raised.
C19_StoreWrittenAfterSuccess ==
  [][/\ sessions' # sessions =>
          /\ pc = "concepts" /\ pc' = "resolved" /\ result' # Null
          /\ IsSet(request.sessionId)
          /\ DOMAIN sessions' = (DOMAIN sessions) \cup {request.sessionId[1]}
          /\ \A id \in DOMAIN sessions :
                id # request.sessionId[1] => sessions'[id] = sessions[id]
          /\ StoredFrom(sessions'[request.sessionId[1]], result'[1])
          /\ sessions'[request.sessionId[1]].challenge_text \in Challenges
     /\ pc' = "rejected" => sessions' = sessions
     /\ (pc = "concepts" /\ pc' = "resolved") => response' = OkResponse(result'[1])]_vars

C19_SessionStored ==
  /\ pc = "resolved" /\ IsSet(request.sessionId)
  /\ request.sessionId[1] \in DOMAIN sessions
  /\ sessions[request.sessionId[1]].layout_results = Some(Stringify(result[1].layouts))
  /\ sessions[request.sessionId[1]].hmw_results = Some(Stringify(result[1].hmw))

----------------------------------------------------------------------------
(* Properties of generateAll when every upstream call settles, under SpecLive *)

\* generateAll is in flight: awaiting stage 1, the images or the concept text
InFlightAll == pc \in {"stage1", "images", "concepts"}

\* C31: if every upstream text and image call settles in the end, every
\* generateAll invocation resolves with a result or rejects in the end
C31_InvocationSettles == InFlightAll ~> (pc \in {"resolved", "rejected"})

\* an invocation has resolved although an image request and the concept call rejected
C31_ResolvedDespiteRejections ==
  /\ pc = "resolved" /\ result # Null
  /\ conceptCall = "rejected"
  /\ \E i \in 1..Len(imageCalls) : imageCalls[i].status = "rejected"

----------------------------------------------------------------------------
(* Properties of the two entry points, under SpecEntry *)

\* the body carries no challenge, or one of white space only
Blank(body) == "challenge" \notin DOMAIN body \/ Trim(body.challenge) = ""

\* the handler has taken a request on this step
Taken == requests' = requests + 1

\* the request was answered at once: no upstream call issued, the store as it was
Refused(status, message) ==
  /\ response' = ErrorResponse(status, message)
  /\ issued' = <<>>
  /\ textCalls' = NoCalls /\ imageCalls' = <<>> /\ conceptCall' = "unissued"
  /\ sessions' = sessions
  /\ pc' = "idle"

\* C32: the generate handler rejects a request before any upstream call and any
\* session-store access when the challenge is missing or only whitespace (400)
\* and, in the serverless handler, when the method is not POST (405) or the API
\* key is not configured (500)
C32_RefusedBeforeAnyCall ==
  [][Taken =>
       /\ (caller = "handleGenerate" /\ Trim(request'.challenge) = "") =>
             Refused(400, "Challenge text is required")
       /\ (caller = "api/generate" /\ request'.method # "POST") =>
             Refused(405, "Method not allowed")
       /\ (caller = "api/generate" /\ request'.method = "POST" /\ Blank(request'.body)) =>
             Refused(400, "Challenge text is required")
       /\ (caller = "api/generate" /\ request'.method = "POST"
             /\ ~Blank(request'.body) /\ request'.apiKey = "") =>
             Refused(500, "API key not configured")]_vars

\* the serverless function has refused a well-formed POST for want of an API key,
\* with a session of an earlier request in the store
C32_RefusedWithoutKey ==
  /\ caller = "api/generate"
  /\ response = ErrorResponse(500, "API key not configured")
  /\ request.method = "POST" /\ ~Blank(request.body)
  /\ DOMAIN sessions # {}

----------------------------------------------------------------------------
(* Properties of the handler when every reply is empty, under SpecEmpty *)

\* C16: an empty reply is not an error: on "" the reframe, feature, layout and
\* user-segment parsers return exactly their placeholders (one theme of three items,
\* one segment), no invocation is rejected, and generateAll resolves once the last
\* call has answered.
C16_EmptyReplyIsNoError ==
  /\ pc # "rejected" /\ failure = Null
  /\ textCalls["hmw"] = "fulfilled" =>
       /\ textValues["hmw"] = Some(HMWPlaceholder)
       /\ Len(textValues["hmw"][1]) = 1 /\ Len(textValues["hmw"][1][1].items) = 3
       /\ \A j \in 1..3 : StartsWith(textValues["hmw"][1][1].items[j], "How might we")
  /\ textCalls["features"] = "fulfilled" =>
       /\ textValues["features"] = Some(FeaturePlaceholder)
       /\ Len(textValues["features"][1]) = 1
       /\ textValues["features"][1][1].name = "Feature Ideas"
       /\ Len(textValues["features"][1][1].items) = 3
  /\ textCalls["layout"] = "fulfilled" =>
       /\ textValues["layout"] = Some(LayoutPlaceholder)
       /\ Len(textValues["layout"][1]) = 1 /\ Len(textValues["layout"][1][1].items) = 3
  /\ textCalls["context"] = "fulfilled" =>
       /\ textValues["context"] = Some(SegmentPlaceholder)
       /\ Len(textValues["context"][1]) = 1
  /\ conceptCall = "fulfilled" => pc = "resolved" /\ result # Null /\ response[1].status = 200

C16_ResolvedOnEmptyReplies ==
  /\ pc = "resolved"
  /\ \A c \in TextCallNames : textCalls[c] = "fulfilled"
  /\ result[1].hmw = HMWPlaceholder
  /\ result[1].user_context = SegmentPlaceholder

----------------------------------------------------------------------------
(* Properties of the page, under SpecUI *)

\* fetch n answers in this step
Answers(n) ==
  /\ n \in 1..Len(ui.fetches)
  /\ ui.fetches[n] = "pending"
  /\ ui'.fetches[n] = "done"

\* C18: after Cancel Generation the response of the cancelled request is discarded:
\* when it arrives, with a result or with an error, the displayed results, the error
\* message and the completion flag stay as they are.
C18_CancelledResponseDiscarded ==
  [][\A n \in ui.cancelled :
       Answers(n) =>
          /\ ui'.results = ui.results
          /\ ui'.errorMessage = ui.errorMessage
          /\ ui'.generationComplete = ui.generationComplete]_vars

\* the requests in flight: fetches started and not answered yet
InFlight == {n \in 1..Len(ui.fetches) : ui.fetches[n] = "pending"}

\* C30: isGenerating is true exactly while a generate or refine request is in
\* flight, so at most one request is in flight at any time, and the results
\* displayed always come from the most recently started request, also after
\* Cancel Generation has been used
C30_BusyExactlyWhileInFlight ==
  /\ [](ui.isGenerating <=> InFlight # {})
  /\ [](Cardinality(InFlight) <= 1)
  /\ [][ui'.results # ui.results => ui'.results = Len(ui'.fetches)]_vars

\* refinement request n fails on this step: it is answered and a message is shown
RefinementFails(n) ==
  /\ n \in ui.refinements
  /\ ui.fetches[n] = "pending" /\ ui'.fetches[n] = "done"
  /\ ui'.errorMessage # ""

\* C33: when a build-on-selected request fails, the page is as it was before the
\* request except for the error message: the results displayed, the history stack
\* and the current-refinement label are those of before the request
C33_FailedRefinementLeavesNoTrace ==
  [][\A n \in 1..Len(ui.fetches) :
        RefinementFails(n) =>
           /\ ui'.results = ui.started[n].results
           /\ ui'.historyStack = ui.started[n].historyStack
           /\ ui'.currentRefinement = ui.started[n].currentRefinement]_vars

\* the entry on top of the history
Top == ui.historyStack[Len(ui.historyStack)]

\* C34: the history is a stack. Build on Selected pushes what is shown (results,
\* refinement label, challenge text); Back restores exactly the last entry pushed
\* and shortens the history by one; Back on an empty history changes nothing; a
\* fresh Generate empties the history
C34_HistoryIsStack ==
  /\ [](Len(ui.historyStack) = 0 => restoreStateFromHistory(ui) = ui)
  /\ [][/\ Len(ui'.fetches) > Len(ui.fetches) =>
              IF Len(ui'.fetches) \in ui'.refinements
              THEN /\ Len(ui'.historyStack) = Len(ui.historyStack) + 1
                   /\ SubSeq(ui'.historyStack, 1, Len(ui.historyStack)) = ui.historyStack
                   /\ ui'.historyStack[Len(ui'.historyStack)] =
                         [results |-> ui.results,
                          currentRefinement |-> ui.currentRefinement,
                          challengeText |-> ui.challengeText]
              ELSE ui'.historyStack = <<>>
        /\ Len(ui'.fetches) = Len(ui.fetches) =>
              \/ ui'.historyStack = ui.historyStack
              \/ /\ Len(ui.historyStack) > 0
                 /\ ui'.historyStack = SubSeq(ui.historyStack, 1, Len(ui.historyStack) - 1)
                 /\ ui'.results = Top.results
                 /\ ui'.currentRefinement = Top.currentRefinement
                 /\ ui'.challengeText = Top.challengeText]_vars

\* a build has succeeded and Back has led to the results and label of before it
C34_BackAfterBuild ==
  /\ ui.fetches = <<"done", "done">> /\ ui.refinements = {2}
  /\ ui.errorMessage = ""
  /\ ui.results = 1 /\ ui.currentRefinement = Null
  /\ ui.historyStack = <<>>

----------------------------------------------------------------------------
(* Properties of the session store over time, under SpecPurge *)

\* the sessions created more than RetentionDays days before the day it is
Expired == {id \in DOMAIN sessions : clock.now - sessions[id].created_at > RetentionDays}

\* a step of purgeExpiredSessions: time stands still and no session appears
PurgeStep == clock' = clock /\ (DOMAIN sessions') \subseteq (DOMAIN sessions)

\* C20: sessions are retained 180 days: purgeExpiredSessions with the default
\* retention deletes exactly the sessions created more than 180 days ago, returns
\* how many it deleted, and leaves the younger sessions and their fields as they were.
C20_PurgeDeletesExpired ==
  [][PurgeStep =>
       /\ DOMAIN sessions' = (DOMAIN sessions) \ Expired
       /\ \A id \in DOMAIN sessions' : sessions'[id] = sessions[id]
       /\ deleted' = Some(Cardinality(Expired))]_vars

C20_PurgedOneKeptOne ==
  /\ deleted = Some(1)
  /\ \E id \in DOMAIN sessions : clock.now - sessions[id].created_at = RetentionDays

----------------------------------------------------------------------------
(* Properties of the session store and its backend, under SpecStore *)

\* C29: once createSession(id, ...) has returned successfully, every later
\* getSession(id) on the same store returns that session, not null, however the
\* backend initialisation is interleaved with the create and get calls
C29_CreatedSessionFound ==
  (/\ backend.last # Null
   /\ backend.last[1].fn = "getSession"
   /\ backend.last[1].id \in backend.created) =>
     /\ backend.last[1].value # Null
     /\ backend.last[1].value[1].session_id = backend.last[1].id

----------------------------------------------------------------------------
(* Properties of the two modes of the session store, under SpecModes *)

\* C35: the in-memory mode and the SQLite mode are observationally equivalent:
\* on every sequence of createSession, updateSession and getSession calls they
\* return the same values and throw in exactly the same calls
C35_ModesEquivalent ==
  backend.last # Null => backend.last[1].map = backend.last[1].sql

----------------------------------------------------------------------------
(* Properties of generateSketchConcepts, under SpecConcepts *)

----------------------------------------------------------------------------
(* Properties of generateImages, under SpecImages *)

\* C3: generateImages returns one slot per supplied prompt, at most three; slot i is
\* the outcome of the request for prompt i: its URL when the request brought one,
\* { url: null, error: message } when it rejected, whatever the other requests did.
C3_OneSlotPerPrompt ==
  (caller = "generateImages" /\ pc = "returned") =>
     /\ images # Null
     /\ Len(images[1]) = Min(3, Len(sketchPrompts))
     /\ \A i \in 1..Len(images[1]) :
          /\ imageCalls[i].prompt = sketchPrompts[i]
          /\ imageCalls[i].status = "rejected" =>
               images[1][i].url = Null /\ images[1][i].error = Some(imageCalls[i].reason)
          /\ (imageCalls[i].status = "fulfilled" /\ Len(imageCalls[i].data) > 0) =>
               images[1][i].url = Some(UrlOf(sketchPrompts[i])) /\ images[1][i].error = Null
          /\ (imageCalls[i].status = "fulfilled" /\ Len(imageCalls[i].data) = 0) =>
               images[1][i].url = Null /\ images[1][i].error = Null

\* three prompts, only the second request rejected, and generateImages has returned
C3_SecondRejected ==
  /\ caller = "generateImages" /\ pc = "returned"
  /\ Len(sketchPrompts) = 3
  /\ imageCalls[2].status = "rejected"
  /\ \A i \in {1, 3} : imageCalls[i].status = "fulfilled" /\ Len(imageCalls[i].data) > 0
  /\ Len(images[1]) = 3
  /\ images[1][2].url = Null

====
